---- MODULE Spec2Model ----
(***************************************************************************)
(* A model of the Sezo audio engine (android-engine, src/main/cpp):        *)
(*   - OboePlayer stream recovery (playback/OboePlayer.cpp)                *)
(*   - CircularBuffer (core/CircularBuffer.cpp)                            *)
(*   - the asynchronous extraction job queue (AudioEngine.cpp) and the     *)
(*     extraction loops it runs (extraction/ExtractionPipeline.cpp)        *)
(* Each subsystem has its own specification over the shared variables; a   *)
(* subsystem's actions leave the other subsystems' variables unchanged.    *)
(***************************************************************************)
EXTENDS Integers, Sequences, FiniteSets, TLC

(***************************************************************************)
(* OboePlayer and TransportController state                                *)
(***************************************************************************)
VARIABLES
    state_,                     \* TransportController::state_
    stream_,                    \* OboePlayer::stream_ (which open call made it)
    streamState,                \* oboe state of the stream stream_ points to
    stream_recovering_,         \* OboePlayer::stream_recovering_
    was_playing_before_error_,  \* OboePlayer::was_playing_before_error_
    ppc,                        \* program counter of each player thread
    was_playing,                \* local was_playing of each thread
    openedStream,               \* the stream the thread's current call opened
    performed,                  \* the current call closed/opened/started a stream
    rejected,                   \* the current call lost the compare-and-swap
    holderAtReject,             \* who held the guard when the call was rejected
    clobbered,                  \* the stream a guard holder opened was replaced
    ret,                        \* return value of the thread's last call
    transportCall,              \* the last transport call and the state it found
    last_recovery,              \* how the last finished recovery attempt ended
    error_log                   \* what the current error notification did so far

playerVars == <<state_, stream_, streamState, stream_recovering_, last_recovery,
                error_log,
                was_playing_before_error_, ppc, was_playing, openedStream,
                performed, rejected, holderAtReject, clobbered, ret,
                transportCall>>

\* Threads that call RestartStream(), and Oboe's error-callback thread.
RestartThreads == {"r1", "r2"}
ErrorThread == "err"
PlayerThreads == RestartThreads \cup {ErrorThread}

\* PlaybackState (core/TransportController.h)
PlaybackStates == {"Stopped", "Playing", "Paused", "Recording"}

NoStream == "null"

\* An error notification that has neither tried to open a stream nor to
\* start one nor invoked error_callback_.
NoLog == [opens |-> <<>>, start |-> "none", callbacks |-> 0]

\* TransportController::IsPlaying
IsPlaying == state_ \in {"Playing", "Recording"}

\* OboePlayer::IsHealthy
IsHealthy ==
    /\ ~stream_recovering_
    /\ stream_ # NoStream
    /\ streamState \in {"Started", "Open", "Stopped", "Paused"}

\* The threads that are between a successful compare-and-swap on
\* stream_recovering_ and the store that releases it.
GuardedPcs == {"r_was_playing", "r_close", "r_open_excl", "r_open_shared",
               "r_check_opened", "r_start", "r_release",
               "e_was_playing", "e_open_excl", "e_open_shared",
               "e_check_opened", "e_start", "e_release"}

InRecovery(t) == ppc[t] \in GuardedPcs

Holders == {t \in PlayerThreads : InRecovery(t)}

\* A change of stream_ made by thread t hits every other thread that is
\* inside its recovery and had installed the stream being replaced.
Clobber(t) == [u \in PlayerThreads |->
                 IF u # t /\ InRecovery(u) /\ stream_ # NoStream
                      /\ stream_ = openedStream[u]
                   THEN TRUE ELSE clobbered[u]]

InitPlayer ==
    /\ state_ = "Stopped"
    /\ stream_ = "init"
    /\ streamState = "Open"
    /\ stream_recovering_ = FALSE
    /\ was_playing_before_error_ = FALSE
    /\ ppc = [t \in PlayerThreads |-> "idle"]
    /\ was_playing = [t \in PlayerThreads |-> FALSE]
    /\ openedStream = [t \in PlayerThreads |-> NoStream]
    /\ performed = [t \in PlayerThreads |-> FALSE]
    /\ rejected = [t \in PlayerThreads |-> FALSE]
    /\ holderAtReject = [t \in PlayerThreads |-> NoStream]
    /\ clobbered = [t \in PlayerThreads |-> FALSE]
    /\ ret = [t \in PlayerThreads |-> "none"]
    /\ transportCall = [op |-> "none", prior |-> "Stopped"]
    /\ last_recovery = "none"
    /\ error_log = NoLog

\* TransportController::Play
Play ==
    /\ state_' = "Playing"
    /\ transportCall' = [op |-> "play", prior |-> state_]
    /\ UNCHANGED <<stream_, streamState, stream_recovering_, last_recovery,
                   was_playing_before_error_, ppc, was_playing, openedStream,
                   performed, rejected, holderAtReject, clobbered, ret>>
    /\ UNCHANGED error_log

\* A pause that stores Paused whatever the state.
Pause_Unconditional ==
    /\ state_' = "Paused"
    /\ transportCall' = [op |-> "pause", prior |-> state_]
    /\ UNCHANGED <<stream_, streamState, stream_recovering_, last_recovery,
                   was_playing_before_error_, ppc, was_playing, openedStream,
                   performed, rejected, holderAtReject, clobbered, ret>>
    /\ UNCHANGED error_log

\* TransportController::Pause
Pause ==
    /\ state_' = IF state_ \in {"Playing", "Recording"} THEN "Paused" ELSE state_
    /\ transportCall' = [op |-> "pause", prior |-> state_]
    /\ UNCHANGED <<stream_, streamState, stream_recovering_, last_recovery,
                   was_playing_before_error_, ppc, was_playing, openedStream,
                   performed, rejected, holderAtReject, clobbered, ret>>
    /\ UNCHANGED error_log

\* TransportController::Stop
Stop ==
    /\ state_' = "Stopped"
    /\ transportCall' = [op |-> "stop", prior |-> state_]
    /\ UNCHANGED <<stream_, streamState, stream_recovering_, last_recovery,
                   was_playing_before_error_, ppc, was_playing, openedStream,
                   performed, rejected, holderAtReject, clobbered, ret>>
    /\ UNCHANGED error_log

\* A thread starts a call of RestartStream(): fresh locals.
RestartCall(t) ==
    /\ t \in RestartThreads
    /\ ppc[t] \in {"idle", "done"}
    /\ ppc' = [ppc EXCEPT ![t] = "r_cas"]
    /\ was_playing' = [was_playing EXCEPT ![t] = FALSE]
    /\ openedStream' = [openedStream EXCEPT ![t] = NoStream]
    /\ performed' = [performed EXCEPT ![t] = FALSE]
    /\ rejected' = [rejected EXCEPT ![t] = FALSE]
    /\ holderAtReject' = [u \in PlayerThreads |->
                            IF u = t \/ holderAtReject[u] = t
                              THEN NoStream ELSE holderAtReject[u]]
    /\ clobbered' = [clobbered EXCEPT ![t] = FALSE]
    /\ ret' = [ret EXCEPT ![t] = "none"]
    /\ UNCHANGED <<state_, transportCall, stream_, streamState, stream_recovering_, last_recovery,
                   was_playing_before_error_>>
    /\ UNCHANGED error_log

\* The guard as a plain store: every caller gets in.
RestartCAS_NoGuard(t) ==
    /\ ppc[t] = "r_cas"
    /\ stream_recovering_' = TRUE
    /\ UNCHANGED last_recovery
    /\ ppc' = [ppc EXCEPT ![t] = "r_was_playing"]
    /\ UNCHANGED <<state_, transportCall, stream_, streamState, was_playing_before_error_,
                   was_playing, openedStream, performed, rejected,
                   holderAtReject, clobbered, ret>>
    /\ UNCHANGED error_log

\* RestartStream: stream_recovering_.compare_exchange_strong(false, true);
\* on failure the call returns false at once.
RestartCAS(t) ==
    /\ ppc[t] = "r_cas"
    /\ IF stream_recovering_
         THEN /\ ppc' = [ppc EXCEPT ![t] = "done"]
              /\ ret' = [ret EXCEPT ![t] = "false"]
              /\ rejected' = [rejected EXCEPT ![t] = TRUE]
              /\ holderAtReject' = [holderAtReject EXCEPT ![t] =
                    IF Holders = {} THEN NoStream ELSE CHOOSE u \in Holders : TRUE]
              /\ UNCHANGED <<stream_recovering_, last_recovery>>
         ELSE /\ stream_recovering_' = TRUE
              /\ UNCHANGED last_recovery
              /\ ppc' = [ppc EXCEPT ![t] = "r_was_playing"]
              /\ UNCHANGED <<ret, rejected, holderAtReject>>
    /\ UNCHANGED <<state_, transportCall, stream_, streamState, was_playing_before_error_,
                   was_playing, openedStream, performed, clobbered>>
    /\ UNCHANGED error_log

\* RestartStream: bool was_playing = transport_->IsPlaying();
RestartWasPlaying(t) ==
    /\ ppc[t] = "r_was_playing"
    /\ was_playing' = [was_playing EXCEPT ![t] = IsPlaying]
    /\ ppc' = [ppc EXCEPT ![t] = "r_close"]
    /\ UNCHANGED <<state_, transportCall, stream_, streamState, stream_recovering_, last_recovery,
                   was_playing_before_error_, openedStream, performed,
                   rejected, holderAtReject, clobbered, ret>>
    /\ UNCHANGED error_log

\* RestartStream: if (stream_) { stop(); close(); stream_.reset(); }
RestartClose(t) ==
    /\ ppc[t] = "r_close"
    /\ IF stream_ # NoStream
         THEN /\ stream_' = NoStream
              /\ streamState' = "None"
              /\ performed' = [performed EXCEPT ![t] = TRUE]
              /\ clobbered' = Clobber(t)
         ELSE UNCHANGED <<stream_, streamState, performed, clobbered>>
    /\ ppc' = [ppc EXCEPT ![t] = "r_open_excl"]
    /\ UNCHANGED <<state_, transportCall, stream_recovering_, last_recovery, was_playing_before_error_,
                   was_playing, openedStream, rejected, holderAtReject, ret>>
    /\ UNCHANGED error_log

\* OpenStream(sharing_mode): builder.openStream(stream_) either fails and
\* leaves the thread to its fallback, or installs a new open stream.
OpenStream(t, okPc, failPc) ==
    /\ performed' = [performed EXCEPT ![t] = TRUE]
    /\ \/ /\ stream_' = t
          /\ streamState' = "Open"
          /\ openedStream' = [openedStream EXCEPT ![t] = t]
          /\ clobbered' = [Clobber(t) EXCEPT ![t] = FALSE]
          /\ ppc' = [ppc EXCEPT ![t] = okPc]
       \/ /\ ppc' = [ppc EXCEPT ![t] = failPc]
          /\ UNCHANGED <<stream_, streamState, openedStream, clobbered>>
    /\ UNCHANGED <<state_, transportCall, stream_recovering_, last_recovery, was_playing_before_error_,
                   was_playing, rejected, holderAtReject, ret>>

\* RestartStream: bool opened = OpenStream(Exclusive);
RestartOpenExclusive(t) ==
    /\ ppc[t] = "r_open_excl"
    /\ OpenStream(t, "r_start", "r_open_shared")
    /\ UNCHANGED error_log

\* RestartStream: if (!opened) opened = OpenStream(Shared);
RestartOpenShared(t) ==
    /\ ppc[t] = "r_open_shared"
    /\ OpenStream(t, "r_start", "r_check_opened")
    /\ UNCHANGED error_log

\* The reopen failing with the guard left set.
RestartOpenFailed_GuardKept(t) ==
    /\ ppc[t] = "r_check_opened"
    /\ last_recovery' = "failed"
    /\ ret' = [ret EXCEPT ![t] = "false"]
    /\ ppc' = [ppc EXCEPT ![t] = "done"]
    /\ UNCHANGED <<state_, transportCall, stream_, streamState, was_playing_before_error_,
                   was_playing, openedStream, performed, rejected,
                   holderAtReject, clobbered, stream_recovering_>>
    /\ UNCHANGED error_log

\* RestartStream: if (!opened) { stream_recovering_ = false; return false; }
RestartOpenFailed(t) ==
    /\ ppc[t] = "r_check_opened"
    /\ stream_recovering_' = FALSE
    /\ last_recovery' = "failed"
    /\ ret' = [ret EXCEPT ![t] = "false"]
    /\ ppc' = [ppc EXCEPT ![t] = "done"]
    /\ UNCHANGED <<state_, transportCall, stream_, streamState, was_playing_before_error_,
                   was_playing, openedStream, performed, rejected,
                   holderAtReject, clobbered>>
    /\ UNCHANGED error_log

\* RestartStream: if (was_playing) { if (!Start()) { release; return false; } }
\* OboePlayer::Start: false without a stream, true if already started, else
\* the result of stream_->start().
RestartStart(t) ==
    /\ ppc[t] = "r_start"
    /\ IF ~was_playing[t]
         THEN /\ ppc' = [ppc EXCEPT ![t] = "r_release"]
              /\ UNCHANGED <<streamState, stream_recovering_, last_recovery, ret, performed>>
         ELSE IF stream_ = NoStream
           THEN /\ stream_recovering_' = FALSE
                /\ last_recovery' = "failed"
                /\ ret' = [ret EXCEPT ![t] = "false"]
                /\ ppc' = [ppc EXCEPT ![t] = "done"]
                /\ UNCHANGED <<streamState, performed>>
           ELSE IF streamState = "Started"
             THEN /\ ppc' = [ppc EXCEPT ![t] = "r_release"]
                  /\ UNCHANGED <<streamState, stream_recovering_, last_recovery, ret, performed>>
             ELSE /\ performed' = [performed EXCEPT ![t] = TRUE]
                  /\ \/ /\ streamState \in {"Open", "Stopped"}
                        /\ streamState' = "Started"
                        /\ ppc' = [ppc EXCEPT ![t] = "r_release"]
                        /\ UNCHANGED <<stream_recovering_, last_recovery, ret>>
                     \/ /\ stream_recovering_' = FALSE
                        /\ last_recovery' = "failed"
                        /\ ret' = [ret EXCEPT ![t] = "false"]
                        /\ ppc' = [ppc EXCEPT ![t] = "done"]
                        /\ UNCHANGED streamState
    /\ UNCHANGED <<state_, transportCall, stream_, was_playing_before_error_, was_playing,
                   openedStream, rejected, holderAtReject, clobbered>>
    /\ UNCHANGED error_log

\* RestartStream: stream_recovering_ = false; return true;
RestartRelease(t) ==
    /\ ppc[t] = "r_release"
    /\ stream_recovering_' = FALSE
    /\ last_recovery' = "succeeded"
    /\ ret' = [ret EXCEPT ![t] = "true"]
    /\ ppc' = [ppc EXCEPT ![t] = "done"]
    /\ UNCHANGED <<state_, transportCall, stream_, streamState, was_playing_before_error_,
                   was_playing, openedStream, performed, rejected,
                   holderAtReject, clobbered>>
    /\ UNCHANGED error_log

\* A live stream fails (it becomes Disconnected) and Oboe calls
\* onErrorBeforeClose: was_playing_before_error_ = transport_->IsPlaying().
onErrorBeforeClose ==
    /\ ppc[ErrorThread] \in {"idle", "done"}
    /\ stream_ # NoStream
    /\ streamState \in {"Open", "Started", "Stopped"}
    /\ streamState' = "Disconnected"
    /\ was_playing_before_error_' = IsPlaying
    /\ ppc' = [ppc EXCEPT ![ErrorThread] = "e_oboe_close"]
    /\ was_playing' = [was_playing EXCEPT ![ErrorThread] = FALSE]
    /\ openedStream' = [openedStream EXCEPT ![ErrorThread] = NoStream]
    /\ performed' = [performed EXCEPT ![ErrorThread] = FALSE]
    /\ rejected' = [rejected EXCEPT ![ErrorThread] = FALSE]
    /\ holderAtReject' = [u \in PlayerThreads |->
                            IF u = ErrorThread \/ holderAtReject[u] = ErrorThread
                              THEN NoStream ELSE holderAtReject[u]]
    /\ clobbered' = [clobbered EXCEPT ![ErrorThread] = FALSE]
    /\ ret' = [ret EXCEPT ![ErrorThread] = "none"]
    /\ UNCHANGED <<state_, transportCall, stream_, stream_recovering_, last_recovery>>
    /\ error_log' = NoLog

\* Between the two notifications Oboe stops and closes the failed stream,
\* if the player has not replaced it meanwhile.
OboeClosesStream ==
    /\ ppc[ErrorThread] = "e_oboe_close"
    /\ streamState' = IF streamState = "Disconnected" THEN "Closed" ELSE streamState
    /\ ppc' = [ppc EXCEPT ![ErrorThread] = "e_reset"]
    /\ UNCHANGED <<state_, transportCall, stream_, stream_recovering_, last_recovery,
                   was_playing_before_error_, was_playing, openedStream,
                   performed, rejected, holderAtReject, clobbered, ret>>
    /\ UNCHANGED error_log

\* onErrorAfterClose: stream_.reset();  (before the guard is tried)
ErrorResetStream ==
    /\ ppc[ErrorThread] = "e_reset"
    /\ stream_' = NoStream
    /\ streamState' = "None"
    /\ clobbered' = IF stream_ # NoStream THEN Clobber(ErrorThread) ELSE clobbered
    /\ ppc' = [ppc EXCEPT ![ErrorThread] = "e_cas"]
    /\ UNCHANGED <<state_, transportCall, stream_recovering_, last_recovery, was_playing_before_error_,
                   was_playing, openedStream, performed, rejected,
                   holderAtReject, ret>>
    /\ UNCHANGED error_log

\* onErrorAfterClose: compare_exchange_strong(false, true); on failure return.
ErrorCAS ==
    /\ ppc[ErrorThread] = "e_cas"
    /\ IF stream_recovering_
         THEN /\ ppc' = [ppc EXCEPT ![ErrorThread] = "done"]
              /\ ret' = [ret EXCEPT ![ErrorThread] = "rejected"]
              /\ rejected' = [rejected EXCEPT ![ErrorThread] = TRUE]
              /\ holderAtReject' = [holderAtReject EXCEPT ![ErrorThread] =
                    IF Holders = {} THEN NoStream ELSE CHOOSE u \in Holders : TRUE]
              /\ UNCHANGED <<stream_recovering_, last_recovery>>
         ELSE /\ stream_recovering_' = TRUE
              /\ UNCHANGED last_recovery
              /\ ppc' = [ppc EXCEPT ![ErrorThread] = "e_was_playing"]
              /\ UNCHANGED <<ret, rejected, holderAtReject>>
    /\ UNCHANGED <<state_, transportCall, stream_, streamState, was_playing_before_error_,
                   was_playing, openedStream, performed, clobbered>>
    /\ UNCHANGED error_log

\* onErrorAfterClose: bool was_playing = was_playing_before_error_.load();
ErrorWasPlaying ==
    /\ ppc[ErrorThread] = "e_was_playing"
    /\ was_playing' = [was_playing EXCEPT ![ErrorThread] = was_playing_before_error_]
    /\ ppc' = [ppc EXCEPT ![ErrorThread] = "e_open_excl"]
    /\ UNCHANGED <<state_, transportCall, stream_, streamState, stream_recovering_, last_recovery,
                   was_playing_before_error_, openedStream, performed,
                   rejected, holderAtReject, clobbered, ret>>
    /\ UNCHANGED error_log

\* onErrorAfterClose: bool opened = OpenStream(Exclusive);
ErrorOpenExclusive ==
    /\ ppc[ErrorThread] = "e_open_excl"
    /\ OpenStream(ErrorThread, "e_start", "e_open_shared")
    /\ error_log' = [error_log EXCEPT !.opens =
                        Append(@, <<"Exclusive", ppc'[ErrorThread] = "e_start">>)]

\* onErrorAfterClose: if (!opened) opened = OpenStream(Shared);
ErrorOpenShared ==
    /\ ppc[ErrorThread] = "e_open_shared"
    /\ OpenStream(ErrorThread, "e_start", "e_check_opened")
    /\ error_log' = [error_log EXCEPT !.opens =
                        Append(@, <<"Shared", ppc'[ErrorThread] = "e_start">>)]

ErrorOpenFailed_Silent ==
    /\ ppc[ErrorThread] = "e_check_opened"
    /\ stream_recovering_' = FALSE
    /\ last_recovery' = "failed"
    /\ ret' = [ret EXCEPT ![ErrorThread] = "failed"]
    /\ ppc' = [ppc EXCEPT ![ErrorThread] = "done"]
    /\ UNCHANGED <<state_, transportCall, stream_, streamState, was_playing_before_error_,
                   was_playing, openedStream, performed, rejected,
                   holderAtReject, clobbered, error_log>>

\* onErrorAfterClose: if (!opened) { release; error_callback_(...); return; }
ErrorOpenFailed ==
    /\ ppc[ErrorThread] = "e_check_opened"
    /\ stream_recovering_' = FALSE
    /\ last_recovery' = "failed"
    /\ ret' = [ret EXCEPT ![ErrorThread] = "failed"]
    /\ ppc' = [ppc EXCEPT ![ErrorThread] = "done"]
    /\ UNCHANGED <<state_, transportCall, stream_, streamState, was_playing_before_error_,
                   was_playing, openedStream, performed, rejected,
                   holderAtReject, clobbered>>
    /\ error_log' = [error_log EXCEPT !.callbacks = @ + 1]

\* onErrorAfterClose: if (was_playing) { stream_->start(); on failure release,
\* error_callback_(...), return; }   A start on a missing stream is counted
\* as a failed start.
ErrorStart ==
    /\ ppc[ErrorThread] = "e_start"
    /\ IF ~was_playing[ErrorThread]
         THEN /\ ppc' = [ppc EXCEPT ![ErrorThread] = "e_release"]
              /\ UNCHANGED <<streamState, stream_recovering_, last_recovery, ret, performed>>
         ELSE /\ performed' = [performed EXCEPT ![ErrorThread] = TRUE]
              /\ \/ /\ stream_ # NoStream
                    /\ streamState \in {"Open", "Stopped"}
                    /\ streamState' = "Started"
                    /\ ppc' = [ppc EXCEPT ![ErrorThread] = "e_release"]
                    /\ UNCHANGED <<stream_recovering_, last_recovery, ret>>
                 \/ /\ stream_recovering_' = FALSE
                    /\ last_recovery' = "failed"
                    /\ ret' = [ret EXCEPT ![ErrorThread] = "failed"]
                    /\ ppc' = [ppc EXCEPT ![ErrorThread] = "done"]
                    /\ UNCHANGED streamState
    /\ UNCHANGED <<state_, transportCall, stream_, was_playing_before_error_, was_playing,
                   openedStream, rejected, holderAtReject, clobbered>>
    /\ error_log' = IF ret'[ErrorThread] = "failed"
                     THEN [error_log EXCEPT !.start = "failed", !.callbacks = @ + 1]
                     ELSE IF streamState' # streamState
                       THEN [error_log EXCEPT !.start = "ok"]
                       ELSE error_log

\* onErrorAfterClose: stream_recovering_ = false;  (recovery completed)
ErrorRelease ==
    /\ ppc[ErrorThread] = "e_release"
    /\ stream_recovering_' = FALSE
    /\ last_recovery' = "succeeded"
    /\ ret' = [ret EXCEPT ![ErrorThread] = "recovered"]
    /\ ppc' = [ppc EXCEPT ![ErrorThread] = "done"]
    /\ UNCHANGED <<state_, transportCall, stream_, streamState, was_playing_before_error_,
                   was_playing, openedStream, performed, rejected,
                   holderAtReject, clobbered>>
    /\ UNCHANGED error_log

NextPlayer ==
    \/ Play
    \/ Pause
    \/ Stop
    \/ \E t \in RestartThreads : RestartCall(t)
    \/ \E t \in RestartThreads : RestartCAS(t)
    \/ \E t \in RestartThreads : RestartWasPlaying(t)
    \/ \E t \in RestartThreads : RestartClose(t)
    \/ \E t \in RestartThreads : RestartOpenExclusive(t)
    \/ \E t \in RestartThreads : RestartOpenShared(t)
    \/ \E t \in RestartThreads : RestartOpenFailed(t)
    \/ \E t \in RestartThreads : RestartStart(t)
    \/ \E t \in RestartThreads : RestartRelease(t)
    \/ onErrorBeforeClose
    \/ OboeClosesStream
    \/ ErrorResetStream
    \/ ErrorCAS
    \/ ErrorWasPlaying
    \/ ErrorOpenExclusive
    \/ ErrorOpenShared
    \/ ErrorOpenFailed
    \/ ErrorStart
    \/ ErrorRelease

(***************************************************************************)
(* Claims about stream recovery                                            *)
(***************************************************************************)

\* C1: stream recovery is mutually exclusive: at most one thread is between
\* acquiring and releasing the recovery guard; a RestartStream() call that
\* finds the guard held returns false at once and has closed, opened and
\* started nothing; of two overlapping RestartStream() calls exactly one
\* (the holder) performs the close/reopen sequence.
C1_RecoveryMutualExclusion ==
    /\ Cardinality(Holders) <= 1
    /\ stream_recovering_ = (Holders # {})
    /\ \A t \in RestartThreads :
         rejected[t] =>
           /\ ppc[t] = "done"
           /\ ret[t] = "false"
           /\ ~performed[t]
    /\ \A t \in RestartThreads :
         (rejected[t] /\ holderAtReject[t] \in RestartThreads
            /\ ppc[holderAtReject[t]] = "done")
           => (performed[holderAtReject[t]] /\ ~performed[t])

\* Two RestartStream() calls overlapped: r2 was rejected while r1 held the
\* guard, and r1 went on to reopen the stream and return true.
C1_Witness ==
    /\ rejected["r2"]
    /\ holderAtReject["r2"] = "r1"
    /\ ppc["r1"] = "done"
    /\ ret["r1"] = "true"
    /\ performed["r1"]
    /\ stream_ = "r1"

\* C2: a recovery attempt that arrives while another holds the guard is
\* rejected and never interleaved: it changes neither the stream handle nor
\* any other player state, so a recovery that reaches its release still
\* finds the stream it opened installed as the player's stream.
C2_RejectedAttemptTouchesNothing ==
    /\ \A t \in PlayerThreads : InRecovery(t) => ~clobbered[t]
    /\ \A t \in PlayerThreads :
         ppc[t] \in {"r_release", "e_release"} => stream_ = openedStream[t]

\* C20: IsHealthy() is false whenever a recovery is in progress and
\* whenever the most recent finished recovery attempt, automatic or
\* explicit, failed (reopen failed in both modes, or reopen succeeded and
\* restarting playback failed), until a later recovery succeeds.
C20_UnhealthyWhileRecoveringOrFailed ==
    (stream_recovering_ \/ last_recovery = "failed") => ~IsHealthy

\* C21: an error notification that starts an automatic recovery invokes
\* the stream-error callback exactly once if the recovery fails (both
\* reopens fail, or the reopened stream fails to start when playback was
\* active) and not at all if it succeeds; shared mode is attempted only
\* after exclusive mode has failed.
C21_ErrorCallbackOnceOnFailure ==
    LET log == error_log
        reopenFailed == Len(log.opens) = 2 /\ ~log.opens[2][2]
    IN  /\ log.callbacks <= 1
        /\ (ppc[ErrorThread] = "done" /\ ~rejected[ErrorThread]) =>
               /\ (reopenFailed \/ log.start = "failed") => log.callbacks = 1
               /\ ~(reopenFailed \/ log.start = "failed") => log.callbacks = 0
               /\ log.start = "failed" => was_playing[ErrorThread]
        /\ ppc[ErrorThread] \notin {"done", "idle"} => log.callbacks = 0
        /\ \A i \in 1..Len(log.opens) :
               log.opens[i][1] = "Shared" =>
                   i = 2 /\ log.opens[1] = <<"Exclusive", FALSE>>

\* An automatic recovery has failed to reopen the stream in exclusive and
\* then in shared mode and has invoked the callback.
C21_Witness ==
    /\ ppc[ErrorThread] = "done"
    /\ ~rejected[ErrorThread]
    /\ error_log.opens = <<<<"Exclusive", FALSE>>, <<"Shared", FALSE>>>>
    /\ error_log.callbacks = 1

(***************************************************************************)
(* Claims about the transport                                              *)
(***************************************************************************)
\* C14: for any sequence of play(), pause() and stop() calls: play() yields
\* Playing; pause() yields Paused if and only if the prior state is Playing
\* or Recording and otherwise leaves the state as it was; stop() yields
\* Stopped; IsPlaying() is true exactly in Playing and Recording; Paused is
\* entered only from Playing or Recording.
C14_TransportTransitions ==
    /\ state_ \in PlaybackStates
    /\ transportCall.op = "play" => state_ = "Playing"
    /\ transportCall.op = "pause" =>
          /\ transportCall.prior \in {"Playing", "Recording"} => state_ = "Paused"
          /\ transportCall.prior \notin {"Playing", "Recording"} =>
                state_ = transportCall.prior
    /\ transportCall.op = "stop" => state_ = "Stopped"
    /\ transportCall.op = "none" => state_ = "Stopped"
    /\ IsPlaying <=> state_ \in {"Playing", "Recording"}
    /\ state_ = "Paused" =>
          /\ transportCall.op = "pause"
          /\ transportCall.prior \in {"Playing", "Recording", "Paused"}

\* pause() has just been called on a stopped transport and has left it
\* stopped.
C14_Witness ==
    /\ transportCall = [op |-> "pause", prior |-> "Stopped"]
    /\ state_ = "Stopped"

(***************************************************************************)
(* CircularBuffer (core/CircularBuffer.cpp)                                *)
(***************************************************************************)
VARIABLES
    capacity_,      \* CircularBuffer::capacity_
    buffer_,        \* CircularBuffer::buffer_, indexed 0 .. capacity_-1
    write_pos_,     \* CircularBuffer::write_pos_
    read_pos_,      \* CircularBuffer::read_pos_
    produced,       \* number of samples Write has accepted so far
    consumed,       \* the samples Read has returned so far, in order
    wpc,            \* the producer's position inside Write
    wloc,           \* the producer's locals
    rpc,            \* the consumer's position inside Read
    rloc,           \* the consumer's locals
    lastCall,       \* the last completed call and its return value
    resets          \* number of times Track::Seek has reset the buffer

ringVars == <<capacity_, buffer_, write_pos_, read_pos_, produced, consumed,
              wpc, wloc, rpc, rloc, lastCall, resets>>

\* Seeks during one run of the ring buffer.
MaxResets == 1

\* Largest capacity, largest count passed to one call, and the number of
\* samples the producer offers in one run.
MaxCapacity == 4
MaxCount == 3
MaxSamples == 6

\* size_t arithmetic wraps; the model wraps at this modulus, far above every
\* index it uses.
SizeMod == 65536

Min(a, b) == IF a < b THEN a ELSE b

\* Available as a plain size_t subtraction, without the wrapped case.
Available_Unwrapped(write_idx, read_idx) ==
    (write_idx - read_idx + SizeMod) % SizeMod

\* CircularBuffer::Available, from the two loaded indices.
Available(write_idx, read_idx) ==
    IF write_idx >= read_idx
      THEN write_idx - read_idx
      ELSE (capacity_ - (read_idx - write_idx)) % SizeMod

\* FreeSpace without the reserved slot.
FreeSpace_NoSlot(avail) == (capacity_ - avail + SizeMod) % SizeMod

\* CircularBuffer::FreeSpace: capacity_ - Available() - 1 in size_t.
FreeSpace(avail) == (capacity_ - avail - 1 + SizeMod) % SizeMod

\* The index of the i-th sample (from 0) of a copy of n samples that starts
\* at idx: the first chunk runs to the end of the array, the second chunk
\* starts again at 0.
ChunkIndex(idx, n, i) ==
    LET first_chunk == Min(n, capacity_ - idx)
    IN IF i < first_chunk THEN idx + i ELSE i - first_chunk

\* The two memcpy calls of Write: samples first .. first+n-1 go to idx ...
CopyIn(buf, idx, n, first) ==
    [k \in DOMAIN buf |->
       IF \E i \in 0..(n - 1) : ChunkIndex(idx, n, i) = k
         THEN first + (CHOOSE i \in 0..(n - 1) : ChunkIndex(idx, n, i) = k)
         ELSE buf[k]]

\* The two memcpy calls of Read: the n samples that start at idx.
CopyOut(buf, idx, n) ==
    [i \in 1..n |-> IF ChunkIndex(idx, n, i - 1) \in DOMAIN buf
                      THEN buf[ChunkIndex(idx, n, i - 1)] ELSE -1]

\* The index stored at the end of Write and Read.
AdvanceIndex(idx, n) == (idx + n) % capacity_

NoLocals == [count |-> 0, w |-> 0, r |-> 0, n |-> 0, idx |-> 0, data |-> <<>>]

InitRing ==
    /\ capacity_ \in 1..MaxCapacity
    /\ buffer_ = [k \in 0..(capacity_ - 1) |-> 0]
    /\ write_pos_ = 0
    /\ read_pos_ = 0
    /\ produced = 0
    /\ consumed = <<>>
    /\ wpc = "idle"
    /\ wloc = NoLocals
    /\ rpc = "idle"
    /\ rloc = NoLocals
    /\ lastCall = [op |-> "none", count |-> 0, ret |-> 0, before |-> 0]
    /\ resets = 0

\* CircularBuffer::Write(data, count) as one call; data holds the next
\* count samples of the stream 1, 2, 3, ...
Write(count) ==
    /\ wpc = "idle" /\ rpc = "idle"
    /\ produced < MaxSamples
    /\ LET avail == Available(write_pos_, read_pos_)
           to_write == Min(count, FreeSpace(avail))
       IN /\ IF to_write = 0
               THEN UNCHANGED <<buffer_, write_pos_, produced>>
               ELSE /\ buffer_' = CopyIn(buffer_, write_pos_, to_write, produced + 1)
                    /\ write_pos_' = AdvanceIndex(write_pos_, to_write)
                    /\ produced' = produced + to_write
          /\ lastCall' = [op |-> "Write", count |-> count, ret |-> to_write,
                          before |-> avail]
    /\ UNCHANGED <<capacity_, read_pos_, consumed, wpc, wloc, rpc, rloc>>

\* CircularBuffer::Read(data, count) as one call.
Read(count) ==
    /\ wpc = "idle" /\ rpc = "idle"
    /\ LET avail == Available(write_pos_, read_pos_)
           to_read == Min(count, avail)
       IN /\ IF to_read = 0
               THEN UNCHANGED <<read_pos_, consumed>>
               ELSE /\ consumed' = consumed \o CopyOut(buffer_, read_pos_, to_read)
                    /\ read_pos_' = AdvanceIndex(read_pos_, to_read)
          /\ lastCall' = [op |-> "Read", count |-> count, ret |-> to_read,
                          before |-> avail]
    /\ UNCHANGED <<capacity_, buffer_, write_pos_, produced, wpc, wloc, rpc, rloc>>

\* CircularBuffer::Reset
Reset ==
    /\ wpc = "idle" /\ rpc = "idle"
    /\ write_pos_' = 0
    /\ read_pos_' = 0
    /\ lastCall' = [op |-> "Reset", count |-> 0, ret |-> 0,
                    before |-> Available(write_pos_, read_pos_)]
    /\ UNCHANGED <<capacity_, buffer_, produced, consumed, wpc, wloc, rpc, rloc>>

NextRing ==
    \/ \E count \in 0..MaxCount : Write(count)
    \/ \E count \in 0..MaxCount : Read(count)
    \/ Reset

(***************************************************************************)
(* Write and Read step by step, one producer thread and one consumer       *)
(* thread: every atomic load, the data copy and the atomic store are       *)
(* separate steps.                                                         *)
(***************************************************************************)

\* The producer enters Write(data, count).
WriteBegin(count) ==
    /\ wpc = "idle"
    /\ produced < MaxSamples
    /\ wpc' = "w_avail_w"
    /\ wloc' = [NoLocals EXCEPT !.count = count]
    /\ lastCall' = [op |-> "Write?", count |-> count, ret |-> 0,
                    before |-> Available(write_pos_, read_pos_)]
    /\ UNCHANGED <<capacity_, buffer_, write_pos_, read_pos_, produced,
                   consumed, rpc, rloc>>

\* Write -> FreeSpace -> Available: write_pos_.load(acquire)
WriteLoadWritePos ==
    /\ wpc = "w_avail_w"
    /\ wloc' = [wloc EXCEPT !.w = write_pos_]
    /\ wpc' = "w_avail_r"
    /\ UNCHANGED <<capacity_, buffer_, write_pos_, read_pos_, produced,
                   consumed, rpc, rloc, lastCall>>

\* Write -> FreeSpace -> Available: read_pos_.load(acquire); then
\* to_write = min(count, free); if (to_write == 0) return 0;
WriteLoadReadPos ==
    /\ wpc = "w_avail_r"
    /\ LET to_write == Min(wloc.count, FreeSpace(Available(wloc.w, read_pos_)))
       IN /\ wloc' = [wloc EXCEPT !.r = read_pos_, !.n = to_write]
          /\ IF to_write = 0
               THEN /\ wpc' = "idle"
                    /\ lastCall' = [lastCall EXCEPT !.op = "Write", !.ret = 0]
               ELSE /\ wpc' = "w_load_idx"
                    /\ UNCHANGED lastCall
    /\ UNCHANGED <<capacity_, buffer_, write_pos_, read_pos_, produced,
                   consumed, rpc, rloc>>

\* Write: write_idx = write_pos_.load(acquire)
WriteLoadIndex ==
    /\ wpc = "w_load_idx"
    /\ wloc' = [wloc EXCEPT !.idx = write_pos_]
    /\ wpc' = "w_copy"
    /\ UNCHANGED <<capacity_, buffer_, write_pos_, read_pos_, produced,
                   consumed, rpc, rloc, lastCall>>

\* Write: the two memcpy calls into buffer_
WriteCopy ==
    /\ wpc = "w_copy"
    /\ buffer_' = CopyIn(buffer_, wloc.idx, wloc.n, produced + 1)
    /\ wpc' = "w_store"
    /\ UNCHANGED <<capacity_, write_pos_, read_pos_, produced, consumed,
                   wloc, rpc, rloc, lastCall>>

\* Write: write_pos_.store((write_idx + to_write) % capacity_, release);
\* return to_write;
WriteStore ==
    /\ wpc = "w_store"
    /\ write_pos_' = AdvanceIndex(wloc.idx, wloc.n)
    /\ produced' = produced + wloc.n
    /\ wpc' = "idle"
    /\ lastCall' = [lastCall EXCEPT !.op = "Write", !.ret = wloc.n]
    /\ UNCHANGED <<capacity_, buffer_, read_pos_, consumed, wloc, rpc, rloc>>

\* The consumer enters Read(data, count).
ReadBegin(count) ==
    /\ rpc = "idle"
    /\ rpc' = "r_avail_w"
    /\ rloc' = [NoLocals EXCEPT !.count = count,
                                !.r = Available(write_pos_, read_pos_)]
    /\ UNCHANGED <<capacity_, buffer_, write_pos_, read_pos_, produced,
                   consumed, wpc, wloc, lastCall>>

\* Read -> Available: write_pos_.load(acquire)
ReadLoadWritePos ==
    /\ rpc = "r_avail_w"
    /\ rloc' = [rloc EXCEPT !.w = write_pos_]
    /\ rpc' = "r_avail_r"
    /\ UNCHANGED <<capacity_, buffer_, write_pos_, read_pos_, produced,
                   consumed, wpc, wloc, lastCall>>

\* Read -> Available: read_pos_.load(acquire); then
\* to_read = min(count, available); if (to_read == 0) return 0;
ReadLoadReadPos ==
    /\ rpc = "r_avail_r"
    /\ LET to_read == Min(rloc.count, Available(rloc.w, read_pos_))
       IN /\ rloc' = [rloc EXCEPT !.n = to_read]
          /\ rpc' = IF to_read = 0 THEN "idle" ELSE "r_load_idx"
    /\ UNCHANGED <<capacity_, buffer_, write_pos_, read_pos_, produced,
                   consumed, wpc, wloc, lastCall>>

\* Read: read_idx = read_pos_.load(acquire)
ReadLoadIndex ==
    /\ rpc = "r_load_idx"
    /\ rloc' = [rloc EXCEPT !.idx = read_pos_]
    /\ rpc' = "r_copy"
    /\ UNCHANGED <<capacity_, buffer_, write_pos_, read_pos_, produced,
                   consumed, wpc, wloc, lastCall>>

\* Read: the two memcpy calls out of buffer_
ReadCopy ==
    /\ rpc = "r_copy"
    /\ rloc' = [rloc EXCEPT !.data = CopyOut(buffer_, rloc.idx, rloc.n)]
    /\ rpc' = "r_store"
    /\ UNCHANGED <<capacity_, buffer_, write_pos_, read_pos_, produced,
                   consumed, wpc, wloc, lastCall>>

\* Read: read_pos_.store((read_idx + to_read) % capacity_, release);
\* return to_read;
ReadStore ==
    /\ rpc = "r_store"
    /\ read_pos_' = AdvanceIndex(rloc.idx, rloc.n)
    /\ consumed' = consumed \o rloc.data
    /\ rpc' = "idle"
    /\ UNCHANGED <<capacity_, buffer_, write_pos_, produced, wpc, wloc, rloc,
                   lastCall>>

ProducerStep ==
    \/ WriteLoadWritePos
    \/ WriteLoadReadPos
    \/ WriteLoadIndex
    \/ WriteCopy
    \/ WriteStore

ConsumerStep ==
    \/ ReadLoadWritePos
    \/ ReadLoadReadPos
    \/ ReadLoadIndex
    \/ ReadCopy
    \/ ReadStore

NextRingSPSC ==
    \/ \E count \in 0..MaxCount : WriteBegin(count)
    \/ \E count \in 0..MaxCount : ReadBegin(count)
    \/ ProducerStep
    \/ ConsumerStep

\* buffer_->Reset() as Track::Seek calls it, on the control thread and
\* under decoder_mutex_.  The streaming thread's Write and the callback's
\* Read take no lock that Seek holds, so nothing orders them with Reset.
\* lastCall.ret alternates so that every such call changes lastCall.
SeekReset ==
    /\ resets < MaxResets
    /\ resets' = resets + 1
    /\ write_pos_' = 0
    /\ read_pos_' = 0
    /\ lastCall' = [op |-> "SeekReset", count |-> 0,
                    ret |-> IF lastCall.op = "SeekReset" THEN 1 - lastCall.ret ELSE 0,
                    before |-> Available(write_pos_, read_pos_)]
    /\ UNCHANGED <<capacity_, buffer_, produced, consumed, wpc, wloc, rpc, rloc>>

\* The ring buffer up to a seek: calls begin until MaxResets seeks have
\* reset the buffer, and the calls under way then run to their end.
NextRingSeek ==
    \/ /\ resets < MaxResets
       /\ \/ \E count \in 0..MaxCount : WriteBegin(count)
          \/ \E count \in 0..MaxCount : ReadBegin(count)
       /\ UNCHANGED resets
    \/ (ProducerStep \/ ConsumerStep) /\ UNCHANGED resets
    \/ SeekReset

(***************************************************************************)
(* Claims about the ring buffer                                            *)
(***************************************************************************)

\* C3: for every capacity and every sequence of Write, Read and Reset calls
\* with arbitrary counts, after every call Available() + FreeSpace() equals
\* capacity - 1 and 0 <= Available() <= capacity - 1.
C3_AvailablePlusFreeIsCapacityMinusOne ==
    LET avail == Available(write_pos_, read_pos_)
    IN /\ avail + FreeSpace(avail) = capacity_ - 1
       /\ 0 <= avail
       /\ avail <= capacity_ - 1

\* A write has wrapped around the end of the array of a full-size buffer and
\* a later Reset has emptied the buffer again.
C3_Witness ==
    /\ capacity_ = MaxCapacity
    /\ lastCall.op = "Reset"
    /\ lastCall.before > 0
    /\ produced > capacity_
    /\ Available(write_pos_, read_pos_) = 0

\* C4: with one producer and one consumer interleaved step by step (no
\* Reset), the samples Read has returned are, in order, a prefix of the
\* samples Write has accepted, across wraparound; a finished Write has
\* accepted at least min(count, free) and at most count samples, a Read that
\* reaches its copy takes min(count, available) >= 1 samples, and no step of
\* either thread waits for the other.
C4_RoundTripInOrder ==
    /\ consumed = [i \in 1..Len(consumed) |-> i]
    /\ Len(consumed) <= produced
    /\ lastCall.op = "Write" =>
         /\ lastCall.ret <= lastCall.count
         /\ lastCall.ret >= Min(lastCall.count, capacity_ - 1 - lastCall.before)
    /\ rpc \in {"r_load_idx", "r_copy", "r_store"} =>
         /\ rloc.n <= rloc.count
         /\ rloc.n >= Min(rloc.count, rloc.r)
         /\ rloc.n >= 1
    /\ wpc # "idle" => ENABLED ProducerStep
    /\ rpc # "idle" => ENABLED ConsumerStep

\* In the largest buffer the write index has wrapped around the end of the
\* array while the read index has not, samples have already been returned,
\* and a Read is about to complete while the producer sits between its copy
\* and its index store.
C4_Witness ==
    /\ capacity_ = MaxCapacity
    /\ wpc = "w_store"
    /\ rpc = "r_store"
    /\ write_pos_ < read_pos_
    /\ Len(consumed) > 0

(***************************************************************************)
(* The asynchronous extraction queue (AudioEngine.cpp) and the extraction  *)
(* loops of ExtractionPipeline.cpp that the worker runs                    *)
(***************************************************************************)
VARIABLES
    initialized_,                   \* AudioEngine::initialized_
    extraction_worker_running_,     \* AudioEngine::extraction_worker_running_
    extraction_shutdown_,           \* AudioEngine::extraction_shutdown_
    extraction_queue_,              \* AudioEngine::extraction_queue_
    extraction_cancel_flags_,       \* keys of AudioEngine::extraction_cancel_flags_
    cancel_flag,                    \* the value of each job's atomic cancel flag
    next_extraction_job_id_,        \* AudioEngine::next_extraction_job_id_
    current_extraction_job_id_,     \* AudioEngine::current_extraction_job_id_
    files,                          \* per output path: the job whose file is there, 0 if none
    cpc,                            \* the control thread's position (inside Release)
    jpc,                            \* per worker thread: position in ExtractionWorkerLoop
    task,                           \* per worker thread: the dequeued ExtractionTask
    result,                         \* per worker thread: the ExtractionResult being built
    ext,                            \* per worker thread: locals of the extraction loop
    submitted,                      \* job ids returned by accepted submissions, in order
    lastSubmit,                     \* return value of the last Start... call
    started,                        \* job ids in the order the worker dequeued them
    completions,                    \* per job: the calls of its completion callback
    delivered,                      \* per worker thread: progress values passed to the job's callback
    cancel_requested                \* per job: CancelExtraction(job) or a cancel-all asked for it

jobVars == <<initialized_, extraction_worker_running_, extraction_shutdown_,
             extraction_queue_, extraction_cancel_flags_, cancel_flag,
             next_extraction_job_id_, current_extraction_job_id_, files, cpc,
             jpc, task, result, ext, submitted, lastSubmit, started,
             completions, delivered, cancel_requested>>

\* Number of jobs submitted in one run, longest track in frames, and the
\* render chunk (ExtractionPipeline::kRenderBufferFrames, 4096 in the
\* source, scaled down with the track lengths).
MaxJobs == 2
MaxFrames == 3
kRenderBufferFrames == 2

JobIds == 1..MaxJobs
Workers == {"w1", "w2"}
Paths == {"a.wav"}
TrackIds == {"t1"}

Max(a, b) == IF a > b THEN a ELSE b

\* Counters that no comparison reads any more stop growing here.
Saturate(n) == Min(n, MaxFrames + kRenderBufferFrames)

\* Frames written to the encoder, counted up to a bound.
SaturateOut(n) == Min(n, 2 * MaxFrames + kRenderBufferFrames)

NoTask == [job_id |-> 0, is_mix |-> FALSE, track_id |-> "", output_path |-> "",
           cancelled_queued |-> FALSE]

NoResult == [success |-> FALSE, error_message |-> ""]

NoExt == [tr |-> <<>>, has_solo |-> FALSE, total_frames |-> 0,
          last_progress |-> -1, success |-> TRUE, encoder |-> "none",
          frames_to_render |-> 0, frames_rendered |-> 0,
          input_frames_read |-> 0, progress |-> 0,
          written |-> 0, late_writes |-> 0, seen_cancel |-> FALSE,
          late_reports |-> 0]

\* The state a track is found in when an extraction starts (what
\* InitOfflineState reads): total_frames as the decoder reports it (0 when
\* unknown), the frames the decoder really delivers, mute and solo, whether
\* a time stretcher is kept (effects included and active), and the stretch
\* factor in halves (1, 2, 4 for 0.5, 1.0, 2.0).
TrackConfigs ==
    { c \in [total_frames : 0..MaxFrames, frames : 0..MaxFrames,
             muted : BOOLEAN, solo : BOOLEAN, stretcher : BOOLEAN,
             stretch2 : {1, 2, 4}] :
        /\ c.total_frames > 0 => c.frames = c.total_frames
        /\ c.total_frames = 0 => c.frames \in {0, MaxFrames}
        /\ ~c.stretcher => c.stretch2 = 2 }

\* OfflineTrackState after InitOfflineState.
OfflineTrackState(c) ==
    [total_frames |-> c.total_frames, frames |-> c.frames, muted |-> c.muted,
     solo |-> c.solo, stretcher |-> c.stretcher, stretch2 |-> c.stretch2,
     stretch_input_fraction2 |-> 0, decoder_pos |-> 0,
     input_frames_processed |-> 0]

\* GetStretchFactor(state, include_effects), in halves.
GetStretchFactor2(st) == IF st.stretcher THEN st.stretch2 ELSE 2

RenderOfflineTrack_Unstretched(st, frames) ==
    LET frames_read == Min(frames, st.frames - st.decoder_pos)
    IN [rendered |-> frames_read, input |-> frames_read,
        st |-> [st EXCEPT !.decoder_pos = st.decoder_pos + frames_read]]

\* RenderOfflineTrack(state, output, frames, ...): the frames rendered, the
\* input frames read and the track state afterwards.
RenderOfflineTrack(st, frames) ==
    IF frames = 0
      THEN [rendered |-> 0, input |-> 0, st |-> st]
    ELSE IF st.muted
      THEN [rendered |-> frames, input |-> frames, st |-> st]
    ELSE IF st.stretcher
      THEN LET requested2 == frames * st.stretch2 + st.stretch_input_fraction2
               input_frames == Max(1, requested2 \div 2)
               frames_read == Min(input_frames, st.frames - st.decoder_pos)
               st2 == [st EXCEPT !.stretch_input_fraction2 = requested2 % 2,
                                 !.decoder_pos = st.decoder_pos + frames_read]
           IN IF frames_read = 0
                THEN [rendered |-> 0, input |-> 0, st |-> st2]
                ELSE [rendered |-> frames, input |-> frames_read, st |-> st2]
    ELSE LET frames_read == Min(frames, st.frames - st.decoder_pos)
         IN [rendered |-> frames_read, input |-> frames_read,
             st |-> [st EXCEPT !.decoder_pos = st.decoder_pos + frames_read]]

\* ExtractTrack: frames_to_render of one iteration (0 stands for the break
\* on remaining_output <= 0).
FramesToRender(st) ==
    IF st.total_frames <= 0
      THEN kRenderBufferFrames
    ELSE IF st.total_frames - st.input_frames_processed <= 0
      THEN 0
    ELSE Max(1, Min((2 * (st.total_frames - st.input_frames_processed))
                       \div GetStretchFactor2(st),
                    kRenderBufferFrames))

\* The progress value without the clamp to [0, 1].
ProgressOf_Unclamped(processed, total) == processed

\* The progress value min(1, max(0, processed / total)) as a numerator over
\* total_frames.
ProgressOf(processed, total) == Min(total, Max(0, processed))

\* A report test that never passes the value 1.0 on.
ProgressDue_BelowOne(progress, last_progress, total) ==
    /\ progress < total
    /\ (last_progress = -1 \/ (progress - last_progress) * 100 >= total)

\* progress >= 1.0f || progress - last_progress >= kProgressStep (0.01);
\* last_progress is -1 (that is -1.0) before the first report.
ProgressDue(progress, last_progress, total) ==
    \/ progress >= total
    \/ last_progress = -1
    \/ (progress - last_progress) * 100 >= total

InitJobs ==
    /\ initialized_ = FALSE
    /\ extraction_worker_running_ = FALSE
    /\ extraction_shutdown_ = FALSE
    /\ extraction_queue_ = <<>>
    /\ extraction_cancel_flags_ = {}
    /\ cancel_flag = [j \in JobIds |-> FALSE]
    /\ next_extraction_job_id_ = 1
    /\ current_extraction_job_id_ = 0
    /\ files = [p \in Paths |-> 0]
    /\ cpc = "idle"
    /\ jpc = [w \in Workers |-> "none"]
    /\ task = [w \in Workers |-> NoTask]
    /\ result = [w \in Workers |-> NoResult]
    /\ ext = [w \in Workers |-> NoExt]
    /\ submitted = <<>>
    /\ lastSubmit = [ret |-> 0, enqueued |-> 0]
    /\ started = <<>>
    /\ completions = [j \in JobIds |-> <<>>]
    /\ delivered = [w \in Workers |-> <<>>]
    /\ cancel_requested = [j \in JobIds |-> FALSE]

\* A worker slot without a live thread.
FreeWorker(w) == jpc[w] \in {"none", "exited"}

\* A new worker thread on every call, whether or not one is running.
StartExtractionWorker_Always ==
    /\ extraction_shutdown_' = FALSE
    /\ extraction_worker_running_' = TRUE
    /\ IF \E w \in Workers : FreeWorker(w)
         THEN jpc' = [jpc EXCEPT ![CHOOSE w \in Workers : FreeWorker(w)] = "wait"]
         ELSE UNCHANGED jpc

\* AudioEngine::StartExtractionWorker
StartExtractionWorker ==
    IF extraction_worker_running_
      THEN UNCHANGED <<extraction_shutdown_, extraction_worker_running_, jpc>>
      ELSE /\ extraction_shutdown_' = FALSE
           /\ extraction_worker_running_' = TRUE
           /\ jpc' = [jpc EXCEPT ![CHOOSE w \in Workers : FreeWorker(w)] = "wait"]

\* AudioEngine::Initialize, the stream having opened.
Initialize ==
    /\ cpc = "idle"
    /\ ~initialized_
    /\ StartExtractionWorker
    /\ initialized_' = TRUE
    /\ UNCHANGED <<extraction_queue_, extraction_cancel_flags_, cancel_flag,
                   next_extraction_job_id_, current_extraction_job_id_, files,
                   cpc, task, result, ext, submitted, lastSubmit, started,
                   completions, delivered, cancel_requested>>

\* A job id generator that hands out the same id again.
NextExtractionJobId_Stuck == next_extraction_job_id_

\* AudioEngine::NextExtractionJobId: the value after the post-increment.
NextExtractionJobId == next_extraction_job_id_ + 1

\* The body shared by StartExtractTrack and StartExtractAllTracks after the
\* argument checks: start the worker, take an id, build the task, push it
\* and register its cancel flag.
Enqueue(is_mix, track_id, output_path) ==
    LET job_id == next_extraction_job_id_
    IN /\ StartExtractionWorker
       /\ next_extraction_job_id_' = NextExtractionJobId
       /\ extraction_queue_' = Append(extraction_queue_,
             [job_id |-> job_id, is_mix |-> is_mix, track_id |-> track_id,
              output_path |-> output_path, cancelled_queued |-> FALSE])
       /\ extraction_cancel_flags_' = extraction_cancel_flags_ \cup {job_id}
       /\ cancel_flag' = [cancel_flag EXCEPT ![job_id] = FALSE]
       /\ submitted' = Append(submitted, job_id)
       /\ lastSubmit' = [ret |-> job_id, enqueued |-> 1]

Rejected ==
    /\ lastSubmit' = [ret |-> 0, enqueued |-> 0]
    /\ UNCHANGED <<extraction_shutdown_, extraction_worker_running_, jpc,
                   next_extraction_job_id_, extraction_queue_,
                   extraction_cancel_flags_, cancel_flag, submitted>>

\* AudioEngine::StartExtractTrack
StartExtractTrack(track_id, output_path) ==
    /\ cpc = "idle"
    /\ IF ~initialized_ \/ track_id = "" \/ output_path = ""
         THEN Rejected
         ELSE /\ next_extraction_job_id_ <= MaxJobs
              /\ Enqueue(FALSE, track_id, output_path)
    /\ UNCHANGED <<initialized_, current_extraction_job_id_, files, cpc, task,
                   result, ext, started, completions, delivered,
                   cancel_requested>>

\* AudioEngine::StartExtractAllTracks
StartExtractAllTracks(output_path) ==
    /\ cpc = "idle"
    /\ IF ~initialized_ \/ output_path = ""
         THEN Rejected
         ELSE /\ next_extraction_job_id_ <= MaxJobs
              /\ Enqueue(TRUE, "", output_path)
    /\ UNCHANGED <<initialized_, current_extraction_job_id_, files, cpc, task,
                   result, ext, started, completions, delivered,
                   cancel_requested>>

\* A cancel that sets the flag of every registered job.
CancelExtraction_Everyone(job_id) ==
    /\ cpc = "idle"
    /\ job_id \in extraction_cancel_flags_
    /\ cancel_flag' = [j \in JobIds |->
                         IF j \in extraction_cancel_flags_ THEN TRUE
                         ELSE cancel_flag[j]]
    /\ cancel_requested' = [cancel_requested EXCEPT ![job_id] = TRUE]
    /\ UNCHANGED <<initialized_, extraction_worker_running_,
                   extraction_shutdown_, extraction_queue_,
                   extraction_cancel_flags_, next_extraction_job_id_,
                   current_extraction_job_id_, files, cpc, jpc, task, result,
                   ext, submitted, lastSubmit, started, completions,
                   delivered>>

\* AudioEngine::CancelExtraction: false for an id without a cancel record,
\* else that job's flag is set.
CancelExtraction(job_id) ==
    /\ cpc = "idle"
    /\ IF job_id \in extraction_cancel_flags_
         THEN /\ cancel_flag' = [cancel_flag EXCEPT ![job_id] = TRUE]
              /\ cancel_requested' = [cancel_requested EXCEPT ![job_id] = TRUE]
         ELSE UNCHANGED <<cancel_flag, cancel_requested>>
    /\ UNCHANGED <<initialized_, extraction_worker_running_,
                   extraction_shutdown_, extraction_queue_,
                   extraction_cancel_flags_, next_extraction_job_id_,
                   current_extraction_job_id_, files, cpc, jpc, task, result,
                   ext, submitted, lastSubmit, started, completions,
                   delivered>>

\* The effect of AudioEngine::CancelAllExtractions on the flags.
SetAllCancelFlags ==
    /\ cancel_flag' = [j \in JobIds |->
                         IF j \in extraction_cancel_flags_ THEN TRUE
                         ELSE cancel_flag[j]]
    /\ cancel_requested' = [j \in JobIds |->
                         IF j \in extraction_cancel_flags_ THEN TRUE
                         ELSE cancel_requested[j]]

\* AudioEngine::CancelAllExtractions
CancelAllExtractions ==
    /\ cpc = "idle"
    /\ SetAllCancelFlags
    /\ UNCHANGED <<initialized_, extraction_worker_running_,
                   extraction_shutdown_, extraction_queue_,
                   extraction_cancel_flags_, next_extraction_job_id_,
                   current_extraction_job_id_, files, cpc, jpc, task, result,
                   ext, submitted, lastSubmit, started, completions,
                   delivered>>

\* AudioEngine::Release: CancelAllExtractions();
ReleaseBegin ==
    /\ cpc = "idle"
    /\ initialized_
    /\ SetAllCancelFlags
    /\ cpc' = "rel_stop"
    /\ UNCHANGED <<initialized_, extraction_worker_running_,
                   extraction_shutdown_, extraction_queue_,
                   extraction_cancel_flags_, next_extraction_job_id_,
                   current_extraction_job_id_, files, jpc, task, result,
                   ext, submitted, lastSubmit, started, completions,
                   delivered>>

\* Release -> StopExtractionWorker: return if no worker runs, else
\* extraction_shutdown_ = true
ReleaseStop ==
    /\ cpc = "rel_stop"
    /\ IF extraction_worker_running_
         THEN /\ extraction_shutdown_' = TRUE
              /\ cpc' = "rel_cancel"
         ELSE /\ cpc' = "rel_finish"
              /\ UNCHANGED extraction_shutdown_
    /\ UNCHANGED <<initialized_, extraction_worker_running_,
                   extraction_queue_, extraction_cancel_flags_, cancel_flag,
                   next_extraction_job_id_, current_extraction_job_id_, files,
                   jpc, task, result, ext, submitted, lastSubmit, started,
                   completions, delivered, cancel_requested>>

\* Release -> StopExtractionWorker: CancelAllExtractions(); notify_one();
ReleaseCancel ==
    /\ cpc = "rel_cancel"
    /\ SetAllCancelFlags
    /\ cpc' = "rel_join"
    /\ UNCHANGED <<initialized_, extraction_worker_running_,
                   extraction_shutdown_, extraction_queue_,
                   extraction_cancel_flags_, next_extraction_job_id_,
                   current_extraction_job_id_, files, jpc, task, result,
                   ext, submitted, lastSubmit, started, completions,
                   delivered>>

\* Release -> StopExtractionWorker: extraction_thread_.join() returns once
\* the worker has left its loop; extraction_worker_running_ = false
ReleaseJoin ==
    /\ cpc = "rel_join"
    /\ \A w \in Workers : FreeWorker(w)
    /\ extraction_worker_running_' = FALSE
    /\ cpc' = "rel_finish"
    /\ UNCHANGED <<initialized_, extraction_shutdown_, extraction_queue_,
                   extraction_cancel_flags_, cancel_flag,
                   next_extraction_job_id_, current_extraction_job_id_, files,
                   jpc, task, result, ext, submitted, lastSubmit, started,
                   completions, delivered, cancel_requested>>

\* Release: the rest (Stop, UnloadAllTracks, Close); initialized_ = false
ReleaseFinish ==
    /\ cpc = "rel_finish"
    /\ initialized_' = FALSE
    /\ cpc' = "idle"
    /\ UNCHANGED <<extraction_worker_running_, extraction_shutdown_,
                   extraction_queue_, extraction_cancel_flags_, cancel_flag,
                   next_extraction_job_id_, current_extraction_job_id_, files,
                   jpc, task, result, ext, submitted, lastSubmit, started,
                   completions, delivered, cancel_requested>>

\* Messages of the failures that happen before the encoder has opened the
\* output file (AudioEngine::ExtractTrack / ExtractAllTracks and the checks
\* at the head of the pipeline functions).
PreOpenErrors == {"Track not found", "Failed to open encoder"}

\* The track states single-track jobs are started on.
SingleConfigs ==
    {c \in TrackConfigs :
        /\ ~c.solo
        /\ c.total_frames \in {0, MaxFrames}
        /\ c.total_frames = 0 => (c.muted <=> c.frames = 0)
        /\ c.stretcher => c.total_frames = MaxFrames /\ ~c.muted /\ c.stretch2 = 4}

\* The track states mixed jobs are started on: two tracks, effects excluded,
\* the second one always audible and one frame shorter than the longest.
MixConfigs ==
    {c \in TrackConfigs :
        /\ ~c.stretcher
        /\ c.total_frames \in {0, MaxFrames - 1, MaxFrames}
        /\ c.total_frames = 0 => c.frames = MaxFrames /\ ~c.muted /\ ~c.solo
        /\ c.muted => ~c.solo}

MixSecond == {c \in MixConfigs :
                 c.total_frames = MaxFrames - 1 /\ ~c.muted /\ ~c.solo}

\* A track takes part in a mixed render.
Eligible(st, has_solo) == ~(has_solo /\ ~st.solo) /\ ~st.muted

Job(w) == task[w].job_id

\* ExtractionWorkerLoop: the wait on the condition variable, then either
\* leave the loop (queue empty, shutdown set) or take the front task.
WorkerDequeue(w) ==
    /\ jpc[w] = "wait"
    /\ extraction_shutdown_ \/ extraction_queue_ # <<>>
    /\ IF extraction_queue_ = <<>>
         THEN /\ jpc' = [jpc EXCEPT ![w] = "exited"]
              /\ UNCHANGED <<extraction_queue_, current_extraction_job_id_,
                             task, result, ext, started>>
         ELSE /\ task' = [task EXCEPT ![w] =
                         [Head(extraction_queue_) EXCEPT !.cancelled_queued =
                              cancel_flag[Head(extraction_queue_).job_id]]]
              /\ extraction_queue_' = Tail(extraction_queue_)
              /\ current_extraction_job_id_' = Head(extraction_queue_).job_id
              /\ started' = Append(started, Head(extraction_queue_).job_id)
              /\ result' = [result EXCEPT ![w] = NoResult]
              /\ ext' = [ext EXCEPT ![w] = NoExt]
              /\ jpc' = [jpc EXCEPT ![w] = "check_cancel"]
    /\ UNCHANGED <<initialized_, extraction_worker_running_,
                   extraction_shutdown_, extraction_cancel_flags_, cancel_flag,
                   next_extraction_job_id_, files, cpc, submitted, lastSubmit,
                   completions, delivered, cancel_requested>>

\* The worker rendering what it dequeued without a look at the flag.
WorkerCheckCancel_Unchecked(w) ==
    /\ jpc[w] = "check_cancel"
    /\ jpc' = [jpc EXCEPT ![w] = "extract"]
    /\ UNCHANGED <<initialized_, extraction_worker_running_,
                   extraction_shutdown_, extraction_queue_,
                   extraction_cancel_flags_, cancel_flag,
                   next_extraction_job_id_, current_extraction_job_id_, files,
                   cpc, task, ext, submitted, lastSubmit, started, completions,
                   delivered, cancel_requested, result>>

\* ExtractionWorkerLoop: a job cancelled while queued is not rendered.
WorkerCheckCancel(w) ==
    /\ jpc[w] = "check_cancel"
    /\ IF cancel_flag[Job(w)]
         THEN /\ result' = [result EXCEPT ![w] =
                   [success |-> FALSE, error_message |-> "Extraction cancelled"]]
              /\ jpc' = [jpc EXCEPT ![w] = "complete"]
         ELSE /\ jpc' = [jpc EXCEPT ![w] = "extract"]
              /\ UNCHANGED result
    /\ UNCHANGED <<initialized_, extraction_worker_running_,
                   extraction_shutdown_, extraction_queue_,
                   extraction_cancel_flags_, cancel_flag,
                   next_extraction_job_id_, current_extraction_job_id_, files,
                   cpc, task, ext, submitted, lastSubmit, started, completions,
                   delivered, cancel_requested>>

\* ExtractTrack / ExtractMixedTracks up to the loop: either a failure before
\* the output file exists, or the decoders and the encoder are open, the
\* output file has been created and the loop locals are initialised.
ExtractBegin(w) ==
    /\ jpc[w] = "extract"
    /\ \/ /\ \E m \in PreOpenErrors :
               result' = [result EXCEPT ![w] =
                            [success |-> FALSE, error_message |-> m]]
          /\ jpc' = [jpc EXCEPT ![w] = "post_check"]
          /\ UNCHANGED <<files, ext>>
       \/ /\ ~task[w].is_mix
          /\ \E c \in SingleConfigs :
               ext' = [ext EXCEPT ![w] =
                         [NoExt EXCEPT !.tr = <<OfflineTrackState(c)>>,
                                       !.total_frames = c.total_frames,
                                       !.encoder = "open"]]
          /\ files' = [files EXCEPT ![task[w].output_path] = Job(w)]
          /\ jpc' = [jpc EXCEPT ![w] = "x_loop"]
          /\ UNCHANGED result
       \/ /\ task[w].is_mix
          /\ \E c1 \in MixConfigs, c2 \in MixSecond :
               ext' = [ext EXCEPT ![w] =
                         [NoExt EXCEPT !.tr = <<OfflineTrackState(c1),
                                                OfflineTrackState(c2)>>,
                                       !.has_solo = c1.solo \/ c2.solo,
                                       !.total_frames =
                                           Max(c1.total_frames, c2.total_frames),
                                       !.encoder = "open"]]
          /\ files' = [files EXCEPT ![task[w].output_path] = Job(w)]
          /\ jpc' = [jpc EXCEPT ![w] = "m_loop"]
          /\ UNCHANGED result
    /\ UNCHANGED <<initialized_, extraction_worker_running_,
                   extraction_shutdown_, extraction_queue_,
                   extraction_cancel_flags_, cancel_flag,
                   next_extraction_job_id_, current_extraction_job_id_, cpc,
                   task, submitted, lastSubmit, started, completions,
                   delivered, cancel_requested>>

\* Leave the loop towards encoder->Close() with the given locals.
BreakLoop(w, e, msg) ==
    /\ ext' = [ext EXCEPT ![w] = e]
    /\ result' = [result EXCEPT ![w].error_message =
                    IF msg = "" THEN result[w].error_message ELSE msg]
    /\ jpc' = [jpc EXCEPT ![w] = "x_close"]

\* The encoder->Write of one loop pass, as the history fields record it: the
\* frames written, and whether the cancel flag was already set.
Wrote(w, e, frames) ==
    [e EXCEPT !.written = SaturateOut(e.written + frames),
              !.late_writes = Min(2, e.late_writes +
                                     (IF cancel_flag[Job(w)] THEN 1 ELSE 0))]

LoopCheck_NoCancel(w) ==
    /\ jpc[w] \in {"x_loop", "m_loop"}
    /\ LET e == ext[w]
           st == e.tr[1]
       IN IF jpc[w] = "x_loop" /\
             ~(st.total_frames <= 0 \/ st.input_frames_processed < st.total_frames)
            THEN BreakLoop(w, e, "")
            ELSE /\ jpc' = [jpc EXCEPT ![w] = IF jpc[w] = "x_loop" THEN "x_body" ELSE "m_body"]
                 /\ UNCHANGED <<ext, result>>
    /\ UNCHANGED <<initialized_, extraction_worker_running_,
                   extraction_shutdown_, extraction_queue_,
                   extraction_cancel_flags_, cancel_flag,
                   next_extraction_job_id_, current_extraction_job_id_, files,
                   cpc, task, submitted, lastSubmit, started, completions,
                   delivered, cancel_requested>>

\* Both loops, the head of a pass: the while condition of ExtractTrack and
\* the test of the cancel flag.
LoopCheck(w) ==
    /\ jpc[w] \in {"x_loop", "m_loop"}
    /\ LET e == ext[w]
           st == e.tr[1]
       IN IF jpc[w] = "x_loop" /\
             ~(st.total_frames <= 0 \/ st.input_frames_processed < st.total_frames)
            THEN BreakLoop(w, e, "")
          ELSE IF cancel_flag[Job(w)]
            THEN BreakLoop(w, [e EXCEPT !.success = FALSE, !.seen_cancel = TRUE],
                           "Extraction cancelled")
            ELSE /\ jpc' = [jpc EXCEPT ![w] = IF jpc[w] = "x_loop" THEN "x_body" ELSE "m_body"]
                 /\ UNCHANGED <<ext, result>>
    /\ UNCHANGED <<initialized_, extraction_worker_running_,
                   extraction_shutdown_, extraction_queue_,
                   extraction_cancel_flags_, cancel_flag,
                   next_extraction_job_id_, current_extraction_job_id_, files,
                   cpc, task, submitted, lastSubmit, started, completions,
                   delivered, cancel_requested>>

\* ExtractTrack: one pass of the while loop after the cancel check, to the
\* update of input_frames_processed: frames_to_render, RenderOfflineTrack,
\* encoder->Write.
TrackLoop(w) ==
    /\ jpc[w] = "x_body"
    /\ LET e0 == ext[w]
           st == e0.tr[1]
           n == FramesToRender(st)
           r == RenderOfflineTrack(st, n)
           used == IF r.input > 0 THEN r.input ELSE r.rendered
           e == Wrote(w, e0, r.rendered)
       IN IF n = 0
            THEN BreakLoop(w, e0, "")
          ELSE IF r.rendered = 0
            THEN BreakLoop(w, [e0 EXCEPT !.tr = <<r.st>>], "")
          ELSE \/ BreakLoop(w, [e0 EXCEPT !.tr = <<r.st>>, !.success = FALSE],
                            "Failed to write to encoder")
               \/ /\ ext' = [ext EXCEPT ![w] =
                       [e EXCEPT !.tr = <<[r.st EXCEPT !.input_frames_processed =
                                             Saturate(st.input_frames_processed + used)]>>,
                                 !.frames_to_render = n,
                                 !.frames_rendered = r.rendered,
                                 !.input_frames_read = r.input,
                                 !.progress = Saturate(st.input_frames_processed + used)]]
                  /\ jpc' = [jpc EXCEPT ![w] = "x_progress"]
                  /\ UNCHANGED result
    /\ UNCHANGED <<initialized_, extraction_worker_running_,
                   extraction_shutdown_, extraction_queue_,
                   extraction_cancel_flags_, cancel_flag,
                   next_extraction_job_id_, current_extraction_job_id_, files,
                   cpc, task, submitted, lastSubmit, started, completions,
                   delivered, cancel_requested>>

\* ExtractMixedTracks: the largest remaining output over the eligible
\* tracks, floored (an eligible track of unknown length asks for a full
\* chunk); -1 when no eligible track has input left.
MaxRemainingOutput(tr, has_solo) ==
    LET elig == {i \in DOMAIN tr : Eligible(tr[i], has_solo)}
        left == {i \in elig : tr[i].total_frames > 0 /\
                   tr[i].total_frames - tr[i].input_frames_processed > 0}
        out(i) == (2 * (tr[i].total_frames - tr[i].input_frames_processed))
                     \div GetStretchFactor2(tr[i])
    IN IF \E i \in elig : tr[i].total_frames <= 0
         THEN kRenderBufferFrames
       ELSE IF left = {} THEN -1
       ELSE CHOOSE m \in {out(i) : i \in left} : \A i \in left : out(i) <= m

\* ExtractMixedTracks: one pass of the while loop after the cancel check, to
\* max_input_processed: frames_to_render, the render of every eligible
\* track, the clamp, encoder->Write.
MixLoop(w) ==
    /\ jpc[w] = "m_body"
    /\ LET e == ext[w]
           rem == MaxRemainingOutput(e.tr, e.has_solo)
           n == Max(1, Min(rem, kRenderBufferFrames))
           rr == [i \in DOMAIN e.tr |->
                    IF Eligible(e.tr[i], e.has_solo)
                      THEN RenderOfflineTrack(e.tr[i], n)
                      ELSE [rendered |-> 0, input |-> 0, st |-> e.tr[i]]]
           tr2 == [i \in DOMAIN e.tr |->
                    IF rr[i].rendered > 0
                      THEN [rr[i].st EXCEPT !.input_frames_processed =
                              Saturate(e.tr[i].input_frames_processed +
                                 (IF rr[i].input > 0 THEN rr[i].input
                                  ELSE rr[i].rendered))]
                      ELSE rr[i].st]
           active == {i \in DOMAIN e.tr : rr[i].rendered > 0}
           min_frames_read ==
               CHOOSE m \in {n} \cup {rr[i].rendered : i \in active} :
                  \A i \in active : m <= rr[i].rendered /\ m <= n
           max_input_processed ==
               CHOOSE m \in {0} \cup {tr2[i].input_frames_processed : i \in DOMAIN tr2} :
                  \A i \in DOMAIN tr2 : tr2[i].input_frames_processed <= m
       IN IF rem = -1
            THEN BreakLoop(w, e, "")
          ELSE IF active = {}
            THEN BreakLoop(w, [e EXCEPT !.tr = tr2], "")
          ELSE \/ BreakLoop(w, [e EXCEPT !.tr = tr2, !.success = FALSE],
                            "Failed to write to encoder")
               \/ /\ ext' = [ext EXCEPT ![w] =
                       [Wrote(w, e, min_frames_read) EXCEPT !.tr = tr2,
                                 !.frames_to_render = n,
                                 !.frames_rendered = min_frames_read,
                                 !.input_frames_read = 0,
                                 !.progress = max_input_processed]]
                  /\ jpc' = [jpc EXCEPT ![w] = "x_progress"]
                  /\ UNCHANGED result
    /\ UNCHANGED <<initialized_, extraction_worker_running_,
                   extraction_shutdown_, extraction_queue_,
                   extraction_cancel_flags_, cancel_flag,
                   next_extraction_job_id_, current_extraction_job_id_, files,
                   cpc, task, submitted, lastSubmit, started, completions,
                   delivered, cancel_requested>>

\* The end of a loop pass, after the progress report: the break tests at
\* the bottom of the two loops.
AfterProgress(w) ==
    LET e == ext[w]
    IN IF task[w].is_mix
         THEN IF e.frames_rendered < e.frames_to_render
                   \/ (e.total_frames > 0 /\ e.progress >= e.total_frames)
                THEN "x_close" ELSE "m_loop"
         ELSE IF e.frames_rendered < e.frames_to_render /\ e.input_frames_read = 0
                THEN "x_close" ELSE "x_loop"

\* Both loops: "Report progress": skipped when the length is unknown or the
\* cancel flag is set; else the clamped progress is passed on if it reached
\* 1 or advanced by kProgressStep.
ReportProgress(w) ==
    /\ jpc[w] = "x_progress"
    /\ LET e == ext[w]
           progress == ProgressOf(e.progress, e.total_frames)
       IN IF e.total_frames > 0 /\ ~cancel_flag[Job(w)]
            THEN IF ProgressDue(progress, e.last_progress, e.total_frames)
                   THEN /\ ext' = [ext EXCEPT ![w].last_progress = progress]
                        /\ jpc' = [jpc EXCEPT ![w] = "x_wrapper"]
                   ELSE /\ jpc' = [jpc EXCEPT ![w] = AfterProgress(w)]
                        /\ UNCHANGED ext
            ELSE /\ jpc' = [jpc EXCEPT ![w] = AfterProgress(w)]
                 /\ ext' = [ext EXCEPT ![w].seen_cancel =
                              ext[w].seen_cancel \/
                                 (e.total_frames > 0 /\ cancel_flag[Job(w)])]
    /\ UNCHANGED <<initialized_, extraction_worker_running_,
                   extraction_shutdown_, extraction_queue_,
                   extraction_cancel_flags_, cancel_flag,
                   next_extraction_job_id_, current_extraction_job_id_, files,
                   cpc, task, result, submitted, lastSubmit, started,
                   completions, delivered, cancel_requested>>

\* ExtractionWorkerLoop::progress_wrapper: nothing once the cancel flag is
\* set, else the job's progress callback gets the value.
ProgressWrapper(w) ==
    /\ jpc[w] = "x_wrapper"
    /\ IF cancel_flag[Job(w)]
         THEN /\ UNCHANGED delivered
              /\ ext' = [ext EXCEPT ![w].seen_cancel = TRUE]
         ELSE /\ delivered' = [delivered EXCEPT ![w] =
                                 Append(delivered[w], ext[w].last_progress)]
              /\ ext' = [ext EXCEPT ![w].late_reports =
                           Min(2, ext[w].late_reports +
                                  (IF ext[w].seen_cancel THEN 1 ELSE 0))]
    /\ jpc' = [jpc EXCEPT ![w] = AfterProgress(w)]
    /\ UNCHANGED <<initialized_, extraction_worker_running_,
                   extraction_shutdown_, extraction_queue_,
                   extraction_cancel_flags_, cancel_flag,
                   next_extraction_job_id_, current_extraction_job_id_, files,
                   cpc, task, result, submitted, lastSubmit, started,
                   completions, cancel_requested>>

\* Both pipeline functions after the loop: encoder->Close(), which may
\* fail; result.success = success.
ExtractClose(w) ==
    /\ jpc[w] = "x_close"
    /\ \/ /\ ext' = [ext EXCEPT ![w].encoder = "closed"]
          /\ result' = [result EXCEPT ![w].success = ext[w].success]
       \/ /\ ext' = [ext EXCEPT ![w].encoder = "closed", ![w].success = FALSE]
          /\ result' = [result EXCEPT ![w] =
                [success |-> FALSE, error_message |-> "Failed to close encoder"]]
    /\ jpc' = [jpc EXCEPT ![w] = "x_cleanup"]
    /\ UNCHANGED <<initialized_, extraction_worker_running_,
                   extraction_shutdown_, extraction_queue_,
                   extraction_cancel_flags_, cancel_flag,
                   next_extraction_job_id_, current_extraction_job_id_, files,
                   cpc, task, submitted, lastSubmit, started, completions,
                   delivered, cancel_requested>>

\* Both pipeline functions: "else if (cancel_flag && cancel_flag->load())"
\* in the branch taken when success is false.
RemoveOutput(w) == ~ext[w].success /\ cancel_flag[Job(w)]

\* Both pipeline functions, the tail: std::remove(output_path) if called
\* for, then return to the worker loop.
ExtractCleanup(w) ==
    /\ jpc[w] = "x_cleanup"
    /\ files' = IF RemoveOutput(w)
                  THEN [files EXCEPT ![task[w].output_path] = 0]
                  ELSE files
    /\ jpc' = [jpc EXCEPT ![w] = "post_check"]
    /\ UNCHANGED <<initialized_, extraction_worker_running_,
                   extraction_shutdown_, extraction_queue_,
                   extraction_cancel_flags_, cancel_flag,
                   next_extraction_job_id_, current_extraction_job_id_, cpc,
                   task, result, ext, submitted, lastSubmit, started,
                   completions, delivered, cancel_requested>>

\* ExtractionWorkerLoop: the cancel flag is looked at once more after the
\* extraction has returned.
WorkerPostCheck(w) ==
    /\ jpc[w] = "post_check"
    /\ IF cancel_flag[Job(w)]
         THEN result' = [result EXCEPT ![w] =
                [success |-> FALSE,
                 error_message |-> IF result[w].error_message = ""
                                     THEN "Extraction cancelled"
                                     ELSE result[w].error_message]]
         ELSE UNCHANGED result
    /\ jpc' = [jpc EXCEPT ![w] = "complete"]
    /\ UNCHANGED <<initialized_, extraction_worker_running_,
                   extraction_shutdown_, extraction_queue_,
                   extraction_cancel_flags_, cancel_flag,
                   next_extraction_job_id_, current_extraction_job_id_, files,
                   cpc, task, ext, submitted, lastSubmit, started, completions,
                   delivered, cancel_requested>>

\* ExtractionWorkerLoop: task.completion_callback(task.job_id, result); the
\* record keeps what the callback sees: the result, and whether a file
\* written by this job is at its path.
WorkerComplete(w) ==
    /\ jpc[w] = "complete"
    /\ completions' = [completions EXCEPT ![Job(w)] =
          Append(completions[Job(w)],
                 [success |-> result[w].success,
                  error_message |-> result[w].error_message,
                  file |-> files[task[w].output_path] = Job(w)])]
    /\ jpc' = [jpc EXCEPT ![w] = "erase"]
    /\ UNCHANGED <<initialized_, extraction_worker_running_,
                   extraction_shutdown_, extraction_queue_,
                   extraction_cancel_flags_, cancel_flag,
                   next_extraction_job_id_, current_extraction_job_id_, files,
                   cpc, task, result, ext, submitted, lastSubmit, started,
                   delivered, cancel_requested>>

\* ExtractionWorkerLoop: extraction_cancel_flags_.erase(job_id);
\* current_extraction_job_id_ = 0; the locals of the pass go out of scope.
WorkerErase(w) ==
    /\ jpc[w] = "erase"
    /\ extraction_cancel_flags_' = extraction_cancel_flags_ \ {Job(w)}
    /\ current_extraction_job_id_' = 0
    /\ task' = [task EXCEPT ![w] = NoTask]
    /\ result' = [result EXCEPT ![w] = NoResult]
    /\ ext' = [ext EXCEPT ![w] = NoExt]
    /\ delivered' = [delivered EXCEPT ![w] = <<>>]
    /\ jpc' = [jpc EXCEPT ![w] = "wait"]
    /\ UNCHANGED <<initialized_, extraction_worker_running_,
                   extraction_shutdown_, extraction_queue_, cancel_flag,
                   next_extraction_job_id_, files, cpc, submitted, lastSubmit,
                   started, completions, cancel_requested>>

WorkerStep(w) ==
    \/ WorkerDequeue(w)
    \/ WorkerCheckCancel(w)
    \/ ExtractBegin(w)
    \/ LoopCheck(w)
    \/ TrackLoop(w)
    \/ MixLoop(w)
    \/ ReportProgress(w)
    \/ ProgressWrapper(w)
    \/ ExtractClose(w)
    \/ ExtractCleanup(w)
    \/ WorkerPostCheck(w)
    \/ WorkerComplete(w)
    \/ WorkerErase(w)

NextJobs ==
    \/ Initialize
    \/ \E t \in TrackIds \cup {""}, p \in Paths \cup {""} : StartExtractTrack(t, p)
    \/ \E p \in Paths \cup {""} : StartExtractAllTracks(p)
    \/ \E j \in JobIds : CancelExtraction(j)
    \/ CancelAllExtractions
    \/ ReleaseBegin
    \/ ReleaseStop
    \/ ReleaseCancel
    \/ ReleaseJoin
    \/ ReleaseFinish
    \/ \E w \in Workers : WorkerStep(w)

(***************************************************************************)
(* Claims about the extraction queue                                       *)
(***************************************************************************)
\* A worker is executing a job from the dequeue to the return of the job's
\* completion callback.
Executing(w) ==
    jpc[w] \in {"check_cancel", "extract", "x_loop", "m_loop", "x_body", "m_body", "x_progress",
                "x_wrapper", "x_close", "x_cleanup", "post_check", "complete"}

QueuedIds == [i \in 1..Len(extraction_queue_) |-> extraction_queue_[i].job_id]

\* C5: at every moment at most one asynchronous extraction job is executing
\* (between its dequeue and the return of its completion callback), whatever
\* the sequence of StartExtractTrack, StartExtractAllTracks, CancelExtraction
\* and CancelAllExtractions calls; the executing job is the one named by
\* current_extraction_job_id_.
C5_AtMostOneJobExecuting ==
    /\ Cardinality({w \in Workers : Executing(w)}) <= 1
    /\ Cardinality({w \in Workers : ~FreeWorker(w)}) <= 1
    /\ \A w \in Workers : Executing(w) => current_extraction_job_id_ = Job(w)

\* A job is in its render loop while another accepted job waits in the queue.
C5_Witness ==
    \E w \in Workers :
        /\ jpc[w] = "x_progress"
        /\ extraction_queue_ # <<>>
        /\ Len(submitted) >= 2

\* C6: jobs start executing in the order they were submitted; the ids of
\* successive accepted submissions are strictly increasing positive
\* integers, so the start order is the ascending id order; a rejected
\* submission returns 0 and enqueues nothing (the started jobs followed by
\* the queued ones are exactly the accepted ones, in order).
C6_FifoStartOrderIncreasingIds ==
    /\ started \o QueuedIds = submitted
    /\ \A i \in 1..Len(submitted) : submitted[i] > 0
    /\ \A i, k \in 1..Len(submitted) : i < k => submitted[i] < submitted[k]
    /\ \A i, k \in 1..Len(started) : i < k => started[i] < started[k]
    /\ lastSubmit.ret = 0 <=> lastSubmit.enqueued = 0
    /\ lastSubmit.ret # 0 =>
          /\ lastSubmit.ret > 0
          /\ submitted # <<>>
          /\ submitted[Len(submitted)] = lastSubmit.ret

\* Two jobs have started, in the order of their submission, and the last
\* submission was rejected.
C6_Witness ==
    /\ Len(started) >= 2
    /\ started = submitted
    /\ lastSubmit.ret = 0

\* C7: cancelling one job never affects others: a job's cancel flag is set
\* only if a cancel was asked for that job (CancelExtraction of its id, or a
\* cancel of all jobs), and only such a job completes as cancelled; the
\* other jobs keep their flag, their progress callbacks and their result.
C7_CancelAffectsOnlyThatJob ==
    \A k \in JobIds :
        /\ cancel_flag[k] => cancel_requested[k]
        /\ \A i \in 1..Len(completions[k]) :
              completions[k][i].error_message = "Extraction cancelled"
                 => cancel_requested[k]

\* A later job has been cancelled while an earlier job, still registered
\* and not cancelled, is running and has reported progress.
C7_Witness ==
    \E j, k \in JobIds :
        /\ k < j
        /\ cancel_flag[j]
        /\ j \in extraction_cancel_flags_
        /\ ~cancel_flag[k]
        /\ current_extraction_job_id_ = k
        /\ \E w \in Workers : Job(w) = k /\ delivered[w] # <<>>

\* C8: a cancelled job leaves no output file: when a job's completion
\* reports the failure "Extraction cancelled", no output file written by the
\* job exists at its output path at the time of the completion callback.
C8_CancelledJobLeavesNoFile ==
    \A j \in JobIds : \A i \in 1..Len(completions[j]) :
        (~completions[j][i].success
           /\ completions[j][i].error_message = "Extraction cancelled")
        => ~completions[j][i].file

\* C9: the partial output of a failed job is deleted: when a job fails on an
\* encoder write or an encoder close, no output file written by the job
\* exists at its output path when the result is reported.
C9_FailedJobOutputDeleted ==
    \A j \in JobIds : \A i \in 1..Len(completions[j]) :
        completions[j][i].error_message \in
              {"Failed to write to encoder", "Failed to close encoder"}
        => ~completions[j][i].file

\* C10: every accepted job eventually has its completion callback invoked,
\* exactly once, jobs queued at the release of the engine included, and its
\* cancel record is then removed.
C10_EveryAcceptedJobCompletesOnce ==
    \A j \in JobIds :
        (\E i \in 1..Len(submitted) : submitted[i] = j)
           ~> (Len(completions[j]) = 1 /\ j \notin extraction_cancel_flags_)

(***************************************************************************)
(* Claims about the progress of an extraction                              *)
(***************************************************************************)
\* The last progress value passed to the callback of the job worker w runs
\* is at least 0.99.
ReachedEnd(w) ==
    /\ delivered[w] # <<>>
    /\ delivered[w][Len(delivered[w])] * 100 >= 99 * ext[w].total_frames

\* C11: in single-track and in mixed extraction the values passed to the
\* progress callback are non-decreasing and each lies in [0, 1], for every
\* combination of track lengths and stretch factors.
C11_ProgressNonDecreasingInUnitInterval ==
    \A w \in Workers :
        \A i \in 1..Len(delivered[w]) :
            /\ 0 <= delivered[w][i]
            /\ delivered[w][i] <= ext[w].total_frames
            /\ i > 1 => delivered[w][i - 1] <= delivered[w][i]

\* A mixed extraction with a time-stretched track has reported progress
\* twice.
C11_Witness ==
    \E w \in Workers :
        /\ task[w].is_mix
        /\ Len(delivered[w]) >= 2
        /\ \E i \in DOMAIN ext[w].tr : ext[w].tr[i].stretcher

C13_MixedSuccessReachesEnd ==
    \A w \in Workers :
        (/\ task[w].is_mix
         /\ \A i \in DOMAIN ext[w].tr : ext[w].tr[i].total_frames > 0
         /\ result[w].success
         /\ jpc[w] \in {"complete", "erase"})
        => ReachedEnd(w)

(***************************************************************************)
(* Real-time playback: AudioEngine::Play / Pause / Stop / Seek and the      *)
(* track setters on the control thread, OboePlayer::onAudioReady with       *)
(* MultiTrackMixer::Mix and Track::ReadSamples on the callback thread, and  *)
(* Track::StreamingThreadFunc on each track's streaming thread.  A track's  *)
(* samples are named by their source frame number; a track's               *)
(* CircularBuffer is the sequence of frames written and not yet read.       *)
(***************************************************************************)
VARIABLES
    position_,              \* MasterClock::position_
    muted_,                 \* per track: Track::muted_
    solo_,                  \* per track: Track::solo_
    start_time_samples_,    \* per track: Track::start_time_samples_
    decoder_pos,            \* per track: the frame the decoder delivers next
    buffer_frames,          \* per track: the frames held by Track::buffer_
    spc,                    \* per track: position of its streaming thread
    temp_buffer,            \* per track: StreamingThreadFunc's temp_buffer
    tracks_mutex_,          \* MultiTrackMixer::tracks_mutex_: who holds it
    apc,                    \* position of the callback thread in onAudioReady
    cb,                     \* locals of the callback in flight
    supplied,               \* what the last ReadSamples of the callback in flight gave
    epc,                    \* position of the control thread inside an engine call
    call,                   \* the engine call the control thread is in
    underrun                \* a ReadSamples found fewer frames than it needed

playVars == <<position_, muted_, solo_, start_time_samples_, decoder_pos,
              buffer_frames, spc, temp_buffer, tracks_mutex_, apc, cb,
              supplied, epc, call, underrun>>

\* Frames of a track file, greatest clock position a callback starts
\* below or a seek goes to, frames a track's buffer holds, frames of one
\* callback.  The streaming thread's chunk (4096 frames in the source) is
\* one frame here.
TrackFrames == 2
MaxPosition == 2
BufferFrames == 2
MaxCallbackFrames == 2

\* Start offsets of the second track, seek targets, and the flags the
\* setters are called on (each call stores the opposite of the current
\* value).
StartOffsets == {1}
SeekTargets == {1, 2}
SetterCalls == {<<"mute", "tb">>, <<"solo", "ta">>, <<"solo", "tb">>}

\* The tracks in MultiTrackMixer::tracks_, in order.
TrackOrder == <<"ta", "tb">>
Tracks == {TrackOrder[i] : i \in DOMAIN TrackOrder}

NoCallback == [n |-> 0, timeline_start |-> 0, has_solo |-> FALSE, idx |-> 1,
               mix_calls |-> 0, out |-> "none", changed |-> FALSE]

NoRead == [track |-> "", frames |-> <<>>, first |-> 0, needed |-> 0,
           at |-> 0, out |-> <<>>, ret |-> 0]

NoCall == [op |-> "none", frame |-> 0, idx |-> 1, track |-> "", value |-> FALSE,
           seek_ok |-> TRUE, sought |-> 0, failed |-> 0, errors |-> <<>>]

\* An initialized engine with two loaded tracks, stream open and not
\* started, transport stopped, clock at 0.
InitPlayback ==
    /\ position_ = 0
    /\ muted_ = [t \in Tracks |-> FALSE]
    /\ solo_ = [t \in Tracks |-> FALSE]
    /\ \E s \in StartOffsets : start_time_samples_ = [ta |-> 0, tb |-> s]
    /\ decoder_pos = [t \in Tracks |-> 0]
    /\ buffer_frames = [t \in Tracks |-> <<>>]
    /\ spc = [t \in Tracks |-> "read"]
    /\ temp_buffer = [t \in Tracks |-> <<>>]
    /\ tracks_mutex_ = "free"
    /\ apc = "idle"
    /\ cb = NoCallback
    /\ supplied = NoRead
    /\ epc = "idle"
    /\ call = NoCall
    /\ underrun = FALSE

\* The frames a track will supply from now on, as far as they are already
\* fixed: its buffer, then the chunk its streaming thread is about to
\* write, then what the decoder delivers next.
Upcoming(t) == buffer_frames[t] \o temp_buffer[t] \o <<decoder_pos[t]>>

\* The track supplies consecutive frames starting with frame f.
PositionedAt(t, f) ==
    \A i \in 1..Len(Upcoming(t)) : Upcoming(t)[i] = f + i - 1

\* The player variables an engine call leaves alone apart from the
\* transport state and the stream's state.
recoveryVars == <<stream_, stream_recovering_, last_recovery, error_log,
                  was_playing_before_error_, ppc,
                  was_playing, openedStream, performed, rejected,
                  holderAtReject, clobbered, ret>>

\* ---- the streaming thread of track t (Track::StreamingThreadFunc) ----

\* With room for a chunk in the buffer, decoder_->Read into temp_buffer
\* under decoder_mutex_.  Without room, or at the end of the file where
\* nothing is read, the thread waits and tests again.
StreamRead(t) ==
    /\ spc[t] = "read"
    /\ Len(buffer_frames[t]) + 1 <= BufferFrames
    /\ decoder_pos[t] < TrackFrames
    /\ temp_buffer' = [temp_buffer EXCEPT ![t] = <<decoder_pos[t]>>]
    /\ decoder_pos' = [decoder_pos EXCEPT ![t] = @ + 1]
    /\ spc' = [spc EXCEPT ![t] = "write"]
    /\ UNCHANGED <<position_, muted_, solo_, start_time_samples_,
                   buffer_frames, tracks_mutex_, apc, cb, supplied, epc, call, underrun>>

\* buffer_->Write(temp_buffer), after decoder_mutex_ was released.
StreamWrite(t) ==
    /\ spc[t] = "write"
    /\ buffer_frames' = [buffer_frames EXCEPT ![t] = @ \o temp_buffer[t]]
    /\ temp_buffer' = [temp_buffer EXCEPT ![t] = <<>>]
    /\ spc' = [spc EXCEPT ![t] = "read"]
    /\ UNCHANGED <<position_, muted_, solo_, start_time_samples_, decoder_pos,
                   tracks_mutex_, apc, cb, supplied, epc, call, underrun>>

\* ---- the callback thread (OboePlayer::onAudioReady) ----

\* The stream calls onAudioReady with num_frames = n while it is started.
\* if (!transport_->IsPlaying()) { memset(zeros); return Continue; }
CallbackSilence_Advancing(n) ==
    /\ apc = "idle"
    /\ streamState = "Started"
    /\ position_ + n <= MaxPosition
    /\ ~IsPlaying
    /\ cb' = [NoCallback EXCEPT !.n = n, !.out = "zeros"]
    /\ position_' = position_ + n
    /\ supplied' = NoRead
    /\ UNCHANGED <<muted_, solo_, start_time_samples_, decoder_pos,
                   buffer_frames, spc, temp_buffer, tracks_mutex_, apc, epc,
                   call, underrun>>

CallbackSilence(n) ==
    /\ apc = "idle"
    /\ streamState = "Started"
    /\ position_ + n <= MaxPosition
    /\ ~IsPlaying
    /\ cb' = [NoCallback EXCEPT !.n = n, !.out = "zeros"]
    /\ supplied' = NoRead
    /\ UNCHANGED <<position_, muted_, solo_, start_time_samples_, decoder_pos,
                   buffer_frames, spc, temp_buffer, tracks_mutex_, apc, epc,
                   call, underrun>>

\* The transport is playing:
\* const int64_t timeline_start = clock_->GetPosition();
CallbackPlaying(n) ==
    /\ apc = "idle"
    /\ streamState = "Started"
    /\ position_ + n <= MaxPosition
    /\ IsPlaying
    /\ apc' = "solo"
    /\ cb' = [NoCallback EXCEPT !.n = n, !.timeline_start = position_]
    /\ supplied' = NoRead
    /\ UNCHANGED <<position_, muted_, solo_, start_time_samples_, decoder_pos,
                   buffer_frames, spc, temp_buffer, tracks_mutex_, epc, call, underrun>>

\* MultiTrackMixer::Mix, first pass: has_solo under a lock_guard on
\* tracks_mutex_, which the callback waits for while another thread holds it.
MixHasSolo ==
    /\ apc = "solo"
    /\ tracks_mutex_ = "free"
    /\ apc' = "mix"
    /\ cb' = [cb EXCEPT !.has_solo = \E t \in Tracks : solo_[t],
                        !.mix_calls = @ + 1,
                        !.out = "mix",
                        !.idx = 1,
                        !.changed = FALSE]
    /\ UNCHANGED <<position_, muted_, solo_, start_time_samples_, decoder_pos,
                   buffer_frames, spc, temp_buffer, tracks_mutex_, supplied,
                   epc, call, underrun>>

\* The mixing loop's gate on one track: neither skipped for another
\* track's solo nor muted.
PassesGate(t, has_solo) == ~(has_solo /\ ~solo_[t]) /\ ~muted_[t]

\* track_frame, offset_frames and frames_to_read of the mixing loop.
TrackFrame(t) == cb.timeline_start - start_time_samples_[t]

OffsetFrames_Zero(t) == 0

OffsetFrames(t) == IF TrackFrame(t) < 0 THEN 0 - TrackFrame(t) ELSE 0

FramesToRead(t) == cb.n - OffsetFrames(t)

\* The track has started by the end of this callback's window.
InWindow(t) == ~(TrackFrame(t) < 0 /\ TrackFrame(t) + cb.n <= 0)

\* A zero written to the output in place of a source frame.
Silence == 0 - 1

Zeros(n) == [i \in 1..n |-> Silence]

ReadSamples_Draining(t, needed) ==
    LET got == IF Len(buffer_frames[t]) < needed
                 THEN Len(buffer_frames[t]) ELSE needed
    IN  /\ buffer_frames' = [buffer_frames EXCEPT ![t] =
                               SubSeq(@, got + 1, Len(@))]
        /\ supplied' = [track |-> t,
                        frames |-> IF muted_[t] THEN <<>>
                                   ELSE SubSeq(buffer_frames[t], 1, got),
                        first |-> TrackFrame(t) + OffsetFrames(t),
                        needed |-> needed,
                        at |-> OffsetFrames(t),
                        out |-> IF muted_[t] THEN Zeros(needed)
                                ELSE SubSeq(buffer_frames[t], 1, got)
                                       \o Zeros(needed - got),
                        ret |-> IF muted_[t] THEN needed ELSE got]
        /\ underrun' = (underrun \/ (~muted_[t] /\ got < needed))

\* Track::ReadSamples without time stretching.  Muted, it fills the output
\* with zeros and returns the request.  Otherwise up to `needed` frames
\* leave the buffer, the rest of the request is filled with zeros (an
\* underrun), and the frames read are returned.
ReadSamples(t, needed) ==
    IF muted_[t]
      THEN /\ supplied' = [track |-> t,
                           frames |-> <<>>,
                           first |-> TrackFrame(t) + OffsetFrames(t),
                           needed |-> needed,
                           at |-> OffsetFrames(t),
                           out |-> Zeros(needed),
                           ret |-> needed]
           /\ UNCHANGED <<buffer_frames, underrun>>
      ELSE LET got == IF Len(buffer_frames[t]) < needed
                        THEN Len(buffer_frames[t]) ELSE needed
           IN  /\ buffer_frames' = [buffer_frames EXCEPT ![t] =
                                      SubSeq(@, got + 1, Len(@))]
               /\ supplied' = [track |-> t,
                               frames |-> SubSeq(buffer_frames[t], 1, got),
                               first |-> TrackFrame(t) + OffsetFrames(t),
                               needed |-> needed,
                               at |-> OffsetFrames(t),
                               out |-> SubSeq(buffer_frames[t], 1, got)
                                         \o Zeros(needed - got),
                               ret |-> got]
               /\ underrun' = (underrun \/ got < needed)

\* MultiTrackMixer::Mix, second pass, one track of the loop.  The
\* lock_guard on tracks_mutex_ is taken before the first track and
\* released after the last.
MixTrack_NoSoloGate ==
    LET t == TrackOrder[cb.idx]
        last == cb.idx = Len(TrackOrder)
    IN  /\ apc = "mix"
        /\ IF cb.idx = 1 THEN tracks_mutex_ = "free"
                         ELSE tracks_mutex_ = "callback"
        /\ IF ~muted_[t] /\ InWindow(t)
             THEN ReadSamples(t, FramesToRead(t))
             ELSE UNCHANGED <<buffer_frames, supplied, underrun>>
        /\ tracks_mutex_' = IF last THEN "free" ELSE "callback"
        /\ apc' = IF last THEN "advance" ELSE "mix"
        /\ cb' = [cb EXCEPT !.idx = IF last THEN 1 ELSE @ + 1]
        /\ UNCHANGED <<position_, muted_, solo_, start_time_samples_,
                       decoder_pos, spc, temp_buffer, epc, call>>

MixTrack ==
    LET t == TrackOrder[cb.idx]
        last == cb.idx = Len(TrackOrder)
    IN  /\ apc = "mix"
        /\ IF cb.idx = 1 THEN tracks_mutex_ = "free"
                         ELSE tracks_mutex_ = "callback"
        /\ IF PassesGate(t, cb.has_solo) /\ InWindow(t)
             THEN ReadSamples(t, FramesToRead(t))
             ELSE UNCHANGED <<buffer_frames, supplied, underrun>>
        /\ tracks_mutex_' = IF last THEN "free" ELSE "callback"
        /\ apc' = IF last THEN "advance" ELSE "mix"
        /\ cb' = [cb EXCEPT !.idx = IF last THEN 1 ELSE @ + 1]
        /\ UNCHANGED <<position_, muted_, solo_, start_time_samples_,
                       decoder_pos, spc, temp_buffer, epc, call>>

\* clock_->Advance(num_frames); return Continue;
CallbackAdvance ==
    /\ apc = "advance"
    /\ position_' = position_ + cb.n
    /\ apc' = "idle"
    /\ cb' = NoCallback
    /\ supplied' = NoRead
    /\ UNCHANGED <<muted_, solo_, start_time_samples_, decoder_pos,
                   buffer_frames, spc, temp_buffer, tracks_mutex_, epc, call, underrun>>

\* ---- the control thread (AudioEngine) ----

\* AudioEngine::Play: transport_->Play() ...
EnginePlay ==
    /\ epc = "idle"
    /\ Play
    /\ epc' = "play_start"
    /\ call' = [NoCall EXCEPT !.op = "play"]
    /\ UNCHANGED <<position_, muted_, solo_, start_time_samples_, decoder_pos,
                   buffer_frames, spc, temp_buffer, tracks_mutex_, apc, cb,
                   supplied, underrun>>

\* ... if (!player_->IsRunning()) player_->Start(); on failure the
\* transport is stopped again.
EnginePlayStart ==
    /\ epc = "play_start"
    /\ \/ /\ streamState = "Started"
          /\ UNCHANGED <<state_, streamState, transportCall>>
       \/ /\ streamState # "Started"
          /\ streamState' = "Started"
          /\ UNCHANGED <<state_, transportCall>>
       \/ /\ streamState # "Started"
          /\ state_' = "Stopped"
          /\ transportCall' = [op |-> "stop", prior |-> state_]
          /\ UNCHANGED streamState
    /\ epc' = "idle"
    /\ UNCHANGED recoveryVars
    /\ UNCHANGED <<position_, muted_, solo_, start_time_samples_, decoder_pos,
                   buffer_frames, spc, temp_buffer, tracks_mutex_, apc, cb,
                   supplied, call, underrun>>

\* AudioEngine::Pause
EnginePause ==
    /\ epc = "idle"
    /\ Pause
    /\ call' = [NoCall EXCEPT !.op = "pause"]
    /\ UNCHANGED <<position_, muted_, solo_, start_time_samples_, decoder_pos,
                   buffer_frames, spc, temp_buffer, tracks_mutex_, apc, cb,
                   supplied, epc, underrun>>

\* AudioEngine::Stop: transport_->Stop() ...
EngineStop ==
    /\ epc = "idle"
    /\ Stop
    /\ epc' = "stop_stream"
    /\ call' = [NoCall EXCEPT !.op = "stop"]
    /\ UNCHANGED <<position_, muted_, solo_, start_time_samples_, decoder_pos,
                   buffer_frames, spc, temp_buffer, tracks_mutex_, apc, cb,
                   supplied, underrun>>

\* ... player_->Stop(): the stream stops once no callback is running, or
\* the request fails, which Stop reports and then carries on to Seek(0.0).
EngineStopStream ==
    /\ epc = "stop_stream"
    /\ \/ /\ apc = "idle"
          /\ streamState' = IF streamState = "Started" THEN "Stopped"
                                                       ELSE streamState
       \/ UNCHANGED streamState
    /\ epc' = "seek_clock"
    /\ UNCHANGED <<state_, transportCall>>
    /\ UNCHANGED recoveryVars
    /\ UNCHANGED <<position_, muted_, solo_, start_time_samples_, decoder_pos,
                   buffer_frames, spc, temp_buffer, tracks_mutex_, apc, cb,
                   supplied, call, underrun>>

\* AudioEngine::Seek(position_ms), the position already converted to a
\* frame and clamped to the duration.
EngineSeek(frame) ==
    /\ epc = "idle"
    /\ epc' = "seek_clock"
    /\ call' = [NoCall EXCEPT !.op = "seek", !.frame = frame]
    /\ UNCHANGED playerVars
    /\ UNCHANGED <<position_, muted_, solo_, start_time_samples_, decoder_pos,
                   buffer_frames, spc, temp_buffer, tracks_mutex_, apc, cb,
                   supplied, underrun>>

\* clock_->SetPosition(frame)
SeekSetPosition ==
    /\ epc = "seek_clock"
    /\ position_' = call.frame
    /\ epc' = "seek_track"
    /\ call' = [call EXCEPT !.idx = 1]
    /\ UNCHANGED playerVars
    /\ UNCHANGED <<muted_, solo_, start_time_samples_, decoder_pos,
                   buffer_frames, spc, temp_buffer, tracks_mutex_, apc, cb,
                   supplied, underrun>>

\* Track::Seek(frame): under decoder_mutex_, clamp, buffer_->Reset(),
\* decoder_->Seek.  The streaming thread's read holds the same mutex, its
\* write of temp_buffer does not.
SeekFrame(t) ==
    LET f == call.frame - start_time_samples_[t]
    IN  IF f < 0 THEN 0 ELSE IF f > TrackFrames THEN TrackFrames ELSE f

SeekErrors_PerTrack(errors, seek_ok, seek_result, last) ==
    IF ~seek_result THEN Append(errors, "kSeekFailed") ELSE errors

\* The errors reported by Seek up to the end of an iteration of its loop:
\* "if (!seek_ok) ReportError(kSeekFailed, ...)" follows the loop.
SeekErrors(errors, seek_ok, seek_result, last) ==
    IF last /\ ~(seek_ok /\ seek_result) THEN Append(errors, "kSeekFailed") ELSE errors

\* One iteration of Seek's loop over the tracks, Track::Seek returning
\* seek_result (what decoder_->Seek returns; a failed decoder seek leaves the
\* decoder where it was); after the last the call returns.
SeekOneTrack(seek_result) ==
    LET t == TrackOrder[call.idx]
        last == call.idx = Len(TrackOrder)
    IN  /\ epc = "seek_track"
        /\ buffer_frames' = [buffer_frames EXCEPT ![t] = <<>>]
        /\ decoder_pos' = IF seek_result
                            THEN [decoder_pos EXCEPT ![t] = SeekFrame(t)]
                            ELSE decoder_pos
        /\ epc' = IF last THEN "returned" ELSE "seek_track"
        /\ call' = [call EXCEPT !.idx = IF last THEN 1 ELSE @ + 1,
                                !.seek_ok = @ /\ seek_result,
                                !.sought = @ + 1,
                                !.failed = @ + (IF seek_result THEN 0 ELSE 1),
                                !.errors = SeekErrors(@, call.seek_ok, seek_result, last)]
        /\ UNCHANGED playerVars
        /\ UNCHANGED <<position_, muted_, solo_, start_time_samples_, spc,
                       temp_buffer, tracks_mutex_, apc, cb, supplied, underrun>>

SeekTrack == SeekOneTrack(TRUE)

SeekTrackFails == SeekOneTrack(FALSE)

\* The caller of Stop or Seek goes on.
EngineReturn ==
    /\ epc = "returned"
    /\ epc' = "idle"
    /\ call' = NoCall
    /\ UNCHANGED playerVars
    /\ UNCHANGED <<position_, muted_, solo_, start_time_samples_, decoder_pos,
                   buffer_frames, spc, temp_buffer, tracks_mutex_, apc, cb,
                   supplied, underrun>>

\* AudioEngine::SetTrackMuted / SetTrackSolo with the opposite of the flag's
\* value: mixer_->GetTrack(track_id) locks tracks_mutex_ to look the track
\* up ...
GetTrack(op, t, value) ==
    /\ epc = "idle"
    /\ tracks_mutex_ = "free"
    /\ tracks_mutex_' = "control"
    /\ epc' = "get_track"
    /\ call' = [NoCall EXCEPT !.op = op, !.track = t, !.value = value]
    /\ UNCHANGED playerVars
    /\ UNCHANGED <<position_, muted_, solo_, start_time_samples_, decoder_pos,
                   buffer_frames, spc, temp_buffer, apc, cb, supplied, underrun>>

\* ... and unlocks it on return.
GetTrackReturn ==
    /\ epc = "get_track"
    /\ tracks_mutex_' = "free"
    /\ epc' = "store"
    /\ UNCHANGED playerVars
    /\ UNCHANGED <<position_, muted_, solo_, start_time_samples_, decoder_pos,
                   buffer_frames, spc, temp_buffer, apc, cb, supplied, call, underrun>>

\* Track::SetMuted / Track::SetSolo store the flag.  A callback in flight
\* notes that a flag changed under it.
SetTrackFlag ==
    /\ epc = "store"
    /\ IF call.op = "mute"
         THEN /\ muted_' = [muted_ EXCEPT ![call.track] = call.value]
              /\ UNCHANGED solo_
         ELSE /\ solo_' = [solo_ EXCEPT ![call.track] = call.value]
              /\ UNCHANGED muted_
    /\ cb' = IF apc = "idle" THEN cb ELSE [cb EXCEPT !.changed = TRUE]
    /\ epc' = "idle"
    /\ call' = NoCall
    /\ UNCHANGED playerVars
    /\ UNCHANGED <<position_, start_time_samples_, decoder_pos, buffer_frames,
                   spc, temp_buffer, tracks_mutex_, apc, supplied, underrun>>

\* ---- calls on one Track, as a test makes them ----

\* Track::ReadSamples(output, frames)
TrackRead(t, frames) ==
    /\ apc = "idle"
    /\ epc = "idle"
    /\ ReadSamples(t, frames)
    /\ UNCHANGED <<position_, muted_, solo_, start_time_samples_, decoder_pos,
                   spc, temp_buffer, tracks_mutex_, apc, cb, epc, call>>

\* Track::SetMuted(muted)
SetMuted(t, muted) ==
    /\ muted_' = [muted_ EXCEPT ![t] = muted]
    /\ UNCHANGED <<position_, solo_, start_time_samples_, decoder_pos,
                   buffer_frames, spc, temp_buffer, tracks_mutex_, apc, cb,
                   supplied, epc, call, underrun>>

\* A track with its streaming thread, read and muted directly.
NextTrack ==
    \/ \E t \in Tracks : StreamRead(t) /\ UNCHANGED playerVars
    \/ \E t \in Tracks : StreamWrite(t) /\ UNCHANGED playerVars
    \/ \E t \in Tracks, n \in 1..MaxCallbackFrames :
         TrackRead(t, n) /\ UNCHANGED playerVars
    \/ \E t \in Tracks, m \in BOOLEAN : SetMuted(t, m) /\ UNCHANGED playerVars

\* The streaming threads and the callback thread.
AudioThreads ==
    \/ \E t \in Tracks : StreamRead(t) /\ UNCHANGED playerVars
    \/ \E t \in Tracks : StreamWrite(t) /\ UNCHANGED playerVars
    \/ \E n \in 1..MaxCallbackFrames : CallbackSilence(n) /\ UNCHANGED playerVars
    \/ \E n \in 1..MaxCallbackFrames : CallbackPlaying(n) /\ UNCHANGED playerVars
    \/ MixHasSolo /\ UNCHANGED playerVars
    \/ MixTrack /\ UNCHANGED playerVars
    \/ CallbackAdvance /\ UNCHANGED playerVars

\* Playback with Play, Pause and the mute and solo setters.
NextMixing ==
    \/ AudioThreads
    \/ EnginePlay
    \/ EnginePlayStart
    \/ EnginePause
    \/ \E c \in SetterCalls :
         GetTrack(c[1], c[2], IF c[1] = "mute" THEN ~muted_[c[2]]
                                               ELSE ~solo_[c[2]])
    \/ GetTrackReturn
    \/ SetTrackFlag

\* Playback with Play, Stop and Seek.
\* The streaming thread finds no room for a chunk, or the decoder at its
\* end: streaming_cv_.wait_for(lock, 10 ms or 100 ms).
StreamWait(t) ==
    /\ spc[t] = "read"
    /\ ~(Len(buffer_frames[t]) + 1 <= BufferFrames /\ decoder_pos[t] < TrackFrames)
    /\ spc' = [spc EXCEPT ![t] = "wait"]
    /\ UNCHANGED <<position_, muted_, solo_, start_time_samples_, decoder_pos,
                   buffer_frames, temp_buffer, tracks_mutex_, apc, cb, supplied,
                   epc, call, underrun>>

StreamWake_Untimed(t) ==
    /\ spc[t] = "wait"
    /\ FALSE
    /\ UNCHANGED playVars

\* wait_for returns when its time is up, notified or not; the loop tests
\* streaming_active_ and the free space again.
StreamWake(t) ==
    /\ spc[t] = "wait"
    /\ spc' = [spc EXCEPT ![t] = "read"]
    /\ UNCHANGED <<position_, muted_, solo_, start_time_samples_, decoder_pos,
                   buffer_frames, temp_buffer, tracks_mutex_, apc, cb, supplied,
                   epc, call, underrun>>

\* Track::Seek(frame) as one call, to a frame before the end of the file.
TrackSeek(t, frame) ==
    /\ epc = "idle"
    /\ buffer_frames' = [buffer_frames EXCEPT ![t] = <<>>]
    /\ decoder_pos' = [decoder_pos EXCEPT ![t] =
                          IF frame < 0 THEN 0
                          ELSE IF frame > TrackFrames THEN TrackFrames ELSE frame]
    /\ UNCHANGED <<position_, muted_, solo_, start_time_samples_, spc,
                   temp_buffer, tracks_mutex_, apc, cb, supplied, epc, call,
                   underrun>>

\* Seek with decoders that may fail to seek, the streaming threads running.
NextSeekErrors ==
    \/ \E t \in Tracks : StreamRead(t) /\ UNCHANGED playerVars
    \/ \E t \in Tracks : StreamWrite(t) /\ UNCHANGED playerVars
    \/ \E f \in 0..MaxPosition : EngineSeek(f)
    \/ SeekSetPosition
    \/ SeekTrack
    \/ SeekTrackFails
    \/ EngineReturn

NextSeeking ==
    \/ AudioThreads
    \/ EnginePlay
    \/ EnginePlayStart
    \/ EngineStop
    \/ EngineStopStream
    \/ \E f \in SeekTargets : EngineSeek(f)
    \/ SeekSetPosition
    \/ SeekTrack
    \/ EngineReturn

(***************************************************************************)
(* The arithmetic of mixing: MultiTrackMixer::Mix with Track::ReadSamples   *)
(* on the live path, ExtractMixedTracks with RenderOfflineTrack offline.    *)
(* A sample is an integer number of 1/Unit; a gain likewise.  A frame is a  *)
(* pair <<left, right>>.                                                    *)
(***************************************************************************)
VARIABLES
    mix_tracks,         \* the tracks given to the mixer: their parameters
    master_volume_,     \* MultiTrackMixer::master_volume_
    live_pos,           \* timeline position of the next callback
    live_read,          \* per track: the source frame its buffer supplies next
    live_out,           \* the frames Mix has left in the output so far
    off_read,           \* per track: the frames its offline decoder has given
    off_out,            \* the frames ExtractMixedTracks has written
    off_done            \* ExtractMixedTracks has left its loop

mixVars == <<mix_tracks, master_volume_, live_pos, live_read, live_out,
             off_read, off_out, off_done>>

Unit == 10

\* Frames of timeline rendered.
MaxTimeline == 3

\* The samples of the two track files, the same in both channels.
Source == << <<10, 6, 0 - 10>>, <<8, 0 - 4, 10>> >>

MixIds == 1..Len(Source)

\* Values the setters have stored: volume and master volume in [0, 2],
\* pan in [-1, 1].
Volumes == {0, Unit, 2 * Unit}
Pans == {0 - Unit, 0, Unit}
MasterVolumes == {Unit \div 2, Unit, 2 * Unit}

\* a * b for two numbers in 1/Unit.
Mul(a, b) == (a * b) \div Unit

\* std::cos((pan + 1.0f) * 0.25f * M_PI) and std::sin of the same, for the
\* three pans: 1, 0.7, 0 and 0, 0.7, 1.
PanCos(pan) == IF pan < 0 THEN Unit ELSE IF pan = 0 THEN (7 * Unit) \div 10 ELSE 0

PanSin(pan) == IF pan < 0 THEN 0 ELSE IF pan = 0 THEN (7 * Unit) \div 10 ELSE Unit

\* Volume and pan as Track::ReadSamples and ApplyVolumePan apply them to
\* one frame of a stereo track.
ApplyVolumePan(frame, volume, pan) ==
    <<Mul(frame[1], Mul(volume, PanCos(pan))),
      Mul(frame[2], Mul(volume, PanSin(pan)))>>

\* std::clamp(x, -1.0f, 1.0f)
Clamp_Off(x) == x

Clamp(x) == IF x < 0 - Unit THEN 0 - Unit ELSE IF x > Unit THEN Unit ELSE x

\* Source frame k of track i as its decoder delivers it, zeros past the end
\* of the file.
SourceFrame(i, k) ==
    IF k + 1 <= mix_tracks[i].total_frames
      THEN <<Source[i][k + 1], Source[i][k + 1]>>
      ELSE <<0, 0>>

\* The mixing loop's test of one track.
Eligible_Mix(i) ==
    LET has_solo == \E j \in MixIds : mix_tracks[j].solo
    IN  ~(has_solo /\ ~mix_tracks[i].solo) /\ ~mix_tracks[i].muted

\* What track i adds to output frame o of a callback of n frames at
\* timeline position p: nothing if it is skipped or o lies before its
\* offset_frames, else the next frames of its buffer with volume and pan.
LiveContribution(i, p, n, o) ==
    LET track_frame == p - mix_tracks[i].start
        offset_frames == IF track_frame < 0 THEN 0 - track_frame ELSE 0
    IN  IF \/ ~Eligible_Mix(i)
           \/ (track_frame < 0 /\ track_frame + n <= 0)
           \/ o < offset_frames
          THEN <<0, 0>>
          ELSE ApplyVolumePan(SourceFrame(i, live_read[i] + (o - offset_frames)),
                              mix_tracks[i].volume, mix_tracks[i].pan)

\* The frames track i's buffer gives up in that callback.
LiveFramesRead(i, p, n) ==
    LET track_frame == p - mix_tracks[i].start
        offset_frames == IF track_frame < 0 THEN 0 - track_frame ELSE 0
    IN  IF \/ ~Eligible_Mix(i)
           \/ (track_frame < 0 /\ track_frame + n <= 0)
          THEN 0
          ELSE n - offset_frames

RECURSIVE SumFrames(_, _)
SumFrames(f, ids) ==
    IF ids = {} THEN <<0, 0>>
    ELSE LET i == CHOOSE j \in ids : TRUE
             rest == SumFrames(f, ids \ {i})
         IN  <<f[i][1] + rest[1], f[i][2] + rest[2]>>

\* Output frame o of MultiTrackMixer::Mix: the sum over the tracks, the
\* master volume if it is not 1, the clamp.
MixFrame(p, n, o) ==
    LET sum == SumFrames([i \in MixIds |-> LiveContribution(i, p, n, o)], MixIds)
        scaled == IF master_volume_ # Unit
                    THEN <<Mul(sum[1], master_volume_), Mul(sum[2], master_volume_)>>
                    ELSE sum
    IN  <<Clamp(scaled[1]), Clamp(scaled[2])>>

TrackParams ==
    [volume : Volumes, pan : Pans, muted : BOOLEAN, solo : BOOLEAN,
     start : {0}, total_frames : {2}]

\* Two loaded stereo tracks, the second one possibly starting later and
\* possibly longer than the first.
InitMix ==
    /\ mix_tracks \in
         {<<a, [b EXCEPT !.start = s, !.total_frames = f]>> :
            a \in TrackParams, b \in TrackParams, s \in {0, 1}, f \in {1, 2, 3}}
    /\ master_volume_ \in MasterVolumes
    /\ live_pos = 0
    /\ live_read = [i \in MixIds |-> 0]
    /\ live_out = <<>>
    /\ off_read = [i \in MixIds |-> 0]
    /\ off_out = <<>>
    /\ off_done = FALSE

\* One callback of n frames on the live path: OboePlayer::onAudioReady
\* calls Mix at the clock position and advances the clock.
LiveMix(n) ==
    /\ live_pos + n <= MaxTimeline
    /\ live_out' = live_out \o [o \in 1..n |-> MixFrame(live_pos, n, o - 1)]
    /\ live_read' = [i \in MixIds |-> live_read[i] + LiveFramesRead(i, live_pos, n)]
    /\ live_pos' = live_pos + n
    /\ UNCHANGED <<mix_tracks, master_volume_, off_read, off_out, off_done>>

NextLiveMix == \E n \in 1..MaxCallbackFrames : LiveMix(n)

\* The offline path over the same tracks: ExtractMixedTracks with the
\* tracks' stretchers inactive.  The frames RenderOfflineTrack reads for
\* track i in a pass of n frames.
OfflineFramesRead(i, n) ==
    IF Eligible_Mix(i)
      THEN Min(n, Max(0, mix_tracks[i].total_frames - off_read[i]))
      ELSE 0

\* What track i adds to frame o of the pass: RenderOfflineTrack's output,
\* added for frames_read frames from the start of the buffer.
OfflineContribution(i, n, o) ==
    IF o < OfflineFramesRead(i, n)
      THEN ApplyVolumePan(SourceFrame(i, off_read[i] + o),
                          mix_tracks[i].volume, mix_tracks[i].pan)
      ELSE <<0, 0>>

\* Frame o of the buffer given to encoder->Write: the sum, clamped.
OfflineFrame(n, o) ==
    LET sum == SumFrames([i \in MixIds |-> OfflineContribution(i, n, o)], MixIds)
    IN  <<Clamp(sum[1]), Clamp(sum[2])>>

\* max_remaining_output of a pass, stretch being 1.
OfflineRemaining ==
    LET left == {mix_tracks[i].total_frames - off_read[i] :
                    i \in {j \in MixIds : Eligible_Mix(j)}} \cup {0}
    IN  CHOOSE r \in left : \A x \in left : x <= r

\* One pass of the loop of ExtractMixedTracks.
OfflineChunk ==
    /\ ~off_done
    /\ LET n == Max(1, Min(OfflineRemaining, kRenderBufferFrames))
           active == {i \in MixIds : OfflineFramesRead(i, n) > 0}
           reads == {OfflineFramesRead(i, n) : i \in active}
           min_frames_read == CHOOSE r \in reads : \A x \in reads : r <= x
           processed == [i \in MixIds |-> off_read[i] + OfflineFramesRead(i, n)]
           total_frames == CHOOSE t \in {mix_tracks[i].total_frames : i \in MixIds} :
                              \A i \in MixIds : mix_tracks[i].total_frames <= t
       IN  IF OfflineRemaining <= 0 \/ active = {}
             THEN /\ off_done' = TRUE
                  /\ UNCHANGED <<off_read, off_out>>
             ELSE /\ off_out' = off_out \o
                                  [o \in 1..min_frames_read |-> OfflineFrame(n, o - 1)]
                  /\ off_read' = processed
                  /\ off_done' = (\/ min_frames_read < n
                                  \/ \E i \in MixIds : processed[i] >= total_frames)
    /\ UNCHANGED <<mix_tracks, master_volume_, live_pos, live_read, live_out>>

NextLiveOffline == NextLiveMix \/ OfflineChunk

(***************************************************************************)
(* The engine's tracks: AudioEngine::LoadTrack, UnloadTrack and            *)
(* UnloadAllTracks with the timeline duration they maintain, and the       *)
(* setters and getters of the gain and effect parameters.  A float is a    *)
(* number of 1/Unit; pitch is in semitones, stretch a factor.              *)
(***************************************************************************)
VARIABLES
    tracks_,            \* AudioEngine::tracks_: id -> the Track's fields
    duration_samples_,  \* TimingManager::duration_samples_
    pitch_,             \* AudioEngine::pitch_
    speed_,             \* AudioEngine::speed_
    engineCall          \* history: the last engine call and what it returned

\* One track's effect: its TimeStretch and the input demand it carries over.
VARIABLES
    time_stretcher_,          \* the TimeStretch's fields, and the primitive's pitch
    stretch_input_fraction_,  \* Track::stretch_input_fraction_, in 1/Unit frames
    demand                    \* history: input frames asked for, output frames made

stretchVars == <<time_stretcher_, stretch_input_fraction_, demand>>

engineVars == <<tracks_, duration_samples_, pitch_, speed_, engineCall, stretchVars>>

\* AudioEngine::max_tracks_ as given to Initialize.
MaxTracks == 2

EngineTrackIds == {"ta", "tb", "tc"}

\* The files a track can be loaded from: frames the decoder reports, 0 - 1
\* for a file the decoder cannot open.
FileFrames == [f \in {"a.wav", "b.mp3", "bad.wav", "c.ogg"} |->
                  IF f = "a.wav" THEN 3 ELSE IF f = "b.mp3" THEN 5 ELSE 0 - 1]

FilePaths == DOMAIN FileFrames

IsSupported(f) == f \in {"a.wav", "b.mp3", "bad.wav"}

\* Start times in milliseconds given to LoadTrack.
StartTimesMs == {0 - 1, 0, 1, 2}

SampleRate == 2000

\* Arguments given to the setters, within and outside every range.
FloatArgs == {0 - 130, 0 - 15, 5, 130}

\* static_cast<int64_t> of a quotient truncates towards zero.
Trunc(a, b) == IF a < 0 THEN 0 - ((0 - a) \div b) ELSE a \div b

MsToSamples(ms) == Trunc(ms * SampleRate, 1000)

\* std::clamp
StdClamp(x, lo, hi) == IF x < lo THEN lo ELSE IF x > hi THEN hi ELSE x

\* A Track after its constructor, Load and SetStartTimeSamples.
NewTrack(f, start_time_samples) ==
    [path |-> f,
     start_time_samples_ |-> Max(0, start_time_samples),
     duration |-> FileFrames[f],
     volume_ |-> Unit,
     pan_ |-> 0,
     pitch_semitones_ |-> 0,
     stretch_factor_ |-> Unit]

NoEngineCall == [op |-> "none", id |-> "", ret |-> TRUE]

InitEngine ==
    /\ tracks_ = <<>>
    /\ duration_samples_ = 0
    /\ pitch_ = 0
    /\ speed_ = Unit
    /\ engineCall = NoEngineCall

TrackEnd_NoStart(t) == Max(0, t.duration)

\* Where a track ends on the timeline.
TrackEnd(t) == t.start_time_samples_ + Max(0, t.duration)

RECURSIVE MaxEnd(_, _)
MaxEnd(tr, ids) ==
    IF ids = {} THEN 0
    ELSE LET id == CHOOSE x \in ids : TRUE
         IN  Max(TrackEnd(tr[id]), MaxEnd(tr, ids \ {id}))

\* AudioEngine::RecalculateDuration: the value given to SetDuration.
RecalculateDuration(tr) == MaxEnd(tr, DOMAIN tr)

LoadTrack(id, f, ms) ==
    LET fails == \/ Cardinality(DOMAIN tracks_) >= MaxTracks
                 \/ ~IsSupported(f)
                 \/ (id \notin DOMAIN tracks_ /\ FileFrames[f] < 0)
        tr == [x \in DOMAIN tracks_ \cup {id} |->
                  IF x = id THEN NewTrack(f, MsToSamples(ms)) ELSE tracks_[x]]
    IN  /\ IF fails \/ id \in DOMAIN tracks_
             THEN UNCHANGED <<tracks_, duration_samples_>>
             ELSE /\ tracks_' = tr
                  /\ duration_samples_' = RecalculateDuration(tr)
        /\ engineCall' = [op |-> "LoadTrack", id |-> id, ret |-> ~fails]
        /\ UNCHANGED <<pitch_, speed_, master_volume_>>

UnloadTrack(id) ==
    LET tr == [x \in DOMAIN tracks_ \ {id} |-> tracks_[x]]
    IN  /\ IF id \notin DOMAIN tracks_
             THEN UNCHANGED <<tracks_, duration_samples_>>
             ELSE /\ tracks_' = tr
                  /\ duration_samples_' = RecalculateDuration(tr)
        /\ engineCall' = [op |-> "UnloadTrack", id |-> id, ret |-> id \in DOMAIN tracks_]
        /\ UNCHANGED <<pitch_, speed_, master_volume_>>

UnloadAllTracks ==
    /\ tracks_' = <<>>
    /\ duration_samples_' = 0
    /\ engineCall' = [op |-> "UnloadAllTracks", id |-> "", ret |-> TRUE]
    /\ UNCHANGED <<pitch_, speed_, master_volume_>>

NextTimeline ==
    \/ \E id \in EngineTrackIds, f \in FilePaths, ms \in StartTimesMs : LoadTrack(id, f, ms)
    \/ \E id \in EngineTrackIds : UnloadTrack(id)
    \/ UnloadAllTracks

\* The setters.  A setter of a track that is not loaded reports
\* kTrackNotFound and stores nothing.
SetTrackField(op, id, field, value) ==
    /\ tracks_' = IF id \in DOMAIN tracks_
                    THEN [tracks_ EXCEPT ![id][field] = value]
                    ELSE tracks_
    /\ engineCall' = [op |-> op, id |-> id, ret |-> id \in DOMAIN tracks_]
    /\ UNCHANGED <<duration_samples_, pitch_, speed_, master_volume_>>

SetTrackVolume(id, volume) ==
    SetTrackField("SetTrackVolume", id, "volume_", StdClamp(volume, 0, 2 * Unit))

SetTrackPan(id, pan) ==
    SetTrackField("SetTrackPan", id, "pan_", StdClamp(pan, 0 - Unit, Unit))

\* TimeStretch::SetPitchSemitones and SetStretchFactor: the value stored.
SetPitchSemitones(semitones) == StdClamp(semitones, 0 - 12 * Unit, 12 * Unit)

SetStretchFactor(factor) == StdClamp(factor, Unit \div 2, 2 * Unit)

SetTrackPitch(id, semitones) ==
    SetTrackField("SetTrackPitch", id, "pitch_semitones_", SetPitchSemitones(semitones))

SetTrackSpeed(id, rate) ==
    SetTrackField("SetTrackSpeed", id, "stretch_factor_", SetStretchFactor(rate))

SetMasterVolume(volume) ==
    /\ master_volume_' = StdClamp(volume, 0, 2 * Unit)
    /\ engineCall' = [op |-> "SetMasterVolume", id |-> "", ret |-> TRUE]
    /\ UNCHANGED <<tracks_, duration_samples_, pitch_, speed_>>

SetPitch(semitones) ==
    /\ pitch_' = semitones
    /\ tracks_' = [x \in DOMAIN tracks_ |->
                     [tracks_[x] EXCEPT !.pitch_semitones_ = SetPitchSemitones(semitones)]]
    /\ engineCall' = [op |-> "SetPitch", id |-> "", ret |-> TRUE]
    /\ UNCHANGED <<duration_samples_, speed_, master_volume_>>

SetSpeed(rate) ==
    /\ speed_' = rate
    /\ tracks_' = [x \in DOMAIN tracks_ |->
                     [tracks_[x] EXCEPT !.stretch_factor_ = SetStretchFactor(rate)]]
    /\ engineCall' = [op |-> "SetSpeed", id |-> "", ret |-> TRUE]
    /\ UNCHANGED <<duration_samples_, pitch_, master_volume_>>

\* The getters: Track::GetVolume, GetPan, GetPitchSemitones and
\* GetStretchFactor of a loaded track, and the engine's.
GetVolume(id) == tracks_[id].volume_
GetPan(id) == tracks_[id].pan_
GetPitchSemitones(id) == tracks_[id].pitch_semitones_
GetStretchFactor(id) == tracks_[id].stretch_factor_
GetMasterVolume == master_volume_
GetPitch == pitch_
GetSpeed == speed_

ParamTrackIds == {"ta", "tb"}

NextParams ==
    \/ \E id \in ParamTrackIds, v \in FloatArgs : SetTrackVolume(id, v)
    \/ \E id \in ParamTrackIds, v \in FloatArgs : SetTrackPan(id, v)
    \/ \E id \in ParamTrackIds, v \in FloatArgs : SetTrackPitch(id, v)
    \/ \E id \in ParamTrackIds, v \in FloatArgs : SetTrackSpeed(id, v)
    \/ \E v \in FloatArgs : SetMasterVolume(v)
    \/ \E v \in FloatArgs : SetPitch(v)
    \/ \E v \in FloatArgs : SetSpeed(v)

(***************************************************************************)
(* The effect of one track: TimeStretch and the input it asks for.  The    *)
(* primitive is the Signalsmith stretcher; of it the model keeps the pitch *)
(* last given to setTransposeSemitones.                                    *)
(***************************************************************************)
MaxReadFrames == 2
MaxDemand == 8

NewTimeStretch ==
    [pitch_semitones_ |-> 0, stretch_factor_ |-> Unit, last_pitch_ |-> 0,
     transpose |-> 0, ran |-> FALSE]

NoDemand == [input |-> 0, output |-> 0]

IsActive(ts) == ts.pitch_semitones_ # 0 \/ ts.stretch_factor_ # Unit

\* TimeStretch::Process on input_frames and output_frames frames: the
\* fields afterwards; ran says that the last call on the TimeStretch was a
\* Process in which the primitive processed the block.
Process(ts, input_frames, output_frames) ==
    IF output_frames = 0 \/ input_frames = 0 \/ ~IsActive(ts)
    THEN [ts EXCEPT !.ran = FALSE]
    ELSE IF ts.pitch_semitones_ # ts.last_pitch_
         THEN [ts EXCEPT !.transpose = ts.pitch_semitones_,
                         !.last_pitch_ = ts.pitch_semitones_,
                         !.ran = TRUE]
         ELSE [ts EXCEPT !.ran = TRUE]

\* The input frames of one call: the whole part of the request, at least 1.
InputFrames(requested_input) == Max(1, requested_input \div Unit)

\* Track::ReadSamples(output, frames) of a loaded, unmuted track with a
\* full buffer.
ReadSamplesStretched(frames) ==
    /\ demand.output + frames <= MaxDemand
    /\ IF IsActive(time_stretcher_)
       THEN LET requested_input ==
                    frames * time_stretcher_.stretch_factor_ + stretch_input_fraction_
                input_frames == InputFrames(requested_input)
            IN /\ stretch_input_fraction_' = requested_input % Unit
               /\ time_stretcher_' = Process(time_stretcher_, input_frames, frames)
               /\ demand' = [input |-> demand.input + input_frames,
                             output |-> demand.output + frames]
       ELSE /\ stretch_input_fraction_' = 0
            /\ demand' = [input |-> demand.input + frames,
                          output |-> demand.output + frames]
            /\ UNCHANGED time_stretcher_
    /\ UNCHANGED <<tracks_, duration_samples_, pitch_, speed_, engineCall>>

\* Calls on the TimeStretch alone.
TimeStretchSetPitchSemitones(semitones) ==
    /\ time_stretcher_' = [time_stretcher_ EXCEPT
                              !.pitch_semitones_ = SetPitchSemitones(semitones),
                              !.ran = FALSE]
    /\ UNCHANGED <<tracks_, duration_samples_, pitch_, speed_, engineCall,
                   stretch_input_fraction_, demand>>

TimeStretchSetStretchFactor(factor) ==
    /\ time_stretcher_' = [time_stretcher_ EXCEPT
                              !.stretch_factor_ = SetStretchFactor(factor),
                              !.ran = FALSE]
    /\ UNCHANGED <<tracks_, duration_samples_, pitch_, speed_, engineCall,
                   stretch_input_fraction_, demand>>

TimeStretchProcess(input_frames, output_frames) ==
    /\ time_stretcher_' = Process(time_stretcher_, input_frames, output_frames)
    /\ UNCHANGED <<tracks_, duration_samples_, pitch_, speed_, engineCall,
                   stretch_input_fraction_, demand>>

\* TimeStretch::Reset: stretcher_->reset() clears the primitive's history
\* of samples; last_pitch_ = 0.
TimeStretchReset ==
    /\ time_stretcher_' = [time_stretcher_ EXCEPT !.last_pitch_ = 0, !.ran = FALSE]
    /\ UNCHANGED <<tracks_, duration_samples_, pitch_, speed_, engineCall,
                   stretch_input_fraction_, demand>>

NextStretchDemand ==
    \E frames \in 1..MaxReadFrames : ReadSamplesStretched(frames)

NextTimeStretch ==
    \/ \E semitones \in FloatArgs \cup {0, 5 * Unit} : TimeStretchSetPitchSemitones(semitones)
    \/ \E factor \in FloatArgs \cup {Unit} : TimeStretchSetStretchFactor(factor)
    \/ \E i \in 0..1, o \in 0..1 : TimeStretchProcess(i, o)
    \/ TimeStretchReset

(***************************************************************************)
(* Specifications                                                          *)
(***************************************************************************)
vars == <<playerVars, ringVars, jobVars, playVars, mixVars, engineVars>>

\* The state of a subsystem that a specification does not exercise.
ParkedPlayer == InitPlayer

ParkedRing ==
    /\ capacity_ = 1
    /\ buffer_ = [k \in 0..0 |-> 0]
    /\ write_pos_ = 0
    /\ read_pos_ = 0
    /\ produced = 0
    /\ consumed = <<>>
    /\ wpc = "idle"
    /\ wloc = NoLocals
    /\ rpc = "idle"
    /\ rloc = NoLocals
    /\ lastCall = [op |-> "none", count |-> 0, ret |-> 0, before |-> 0]
    /\ resets = 0

ParkedJobs == InitJobs

ParkedPlayback == InitPlayback /\ start_time_samples_ = [ta |-> 0, tb |-> 1]

ParkedStretch ==
    /\ time_stretcher_ = NewTimeStretch
    /\ stretch_input_fraction_ = 0
    /\ demand = NoDemand

ParkedEngine == InitEngine /\ ParkedStretch

ParkedMix ==
    /\ mix_tracks = <<>>
    /\ master_volume_ = Unit
    /\ live_pos = 0
    /\ live_read = <<>>
    /\ live_out = <<>>
    /\ off_read = <<>>
    /\ off_out = <<>>
    /\ off_done = FALSE

\* Stream recovery: two threads calling RestartStream, Oboe's error thread
\* and the transport commands.
InitRecovery == InitPlayer /\ ParkedRing /\ ParkedJobs /\ ParkedPlayback /\ ParkedMix /\ ParkedEngine

SpecRecovery == InitRecovery /\ [][NextPlayer /\ UNCHANGED <<ringVars, jobVars, playVars, mixVars, engineVars>>]_vars

\* The ring buffer driven by whole calls of Write, Read and Reset.
InitRingCalls == InitRing /\ ParkedPlayer /\ ParkedJobs /\ ParkedPlayback /\ ParkedMix /\ ParkedEngine

SpecRing == InitRingCalls /\ [][NextRing /\ UNCHANGED <<resets, playerVars, jobVars, playVars, mixVars, engineVars>>]_vars

\* The ring buffer with one producer and one consumer, step by step.
InitRingSPSC == InitRing /\ ParkedPlayer /\ ParkedJobs /\ ParkedPlayback /\ ParkedMix /\ ParkedEngine

SpecRingSPSC == InitRingSPSC /\ [][NextRingSPSC /\ UNCHANGED <<resets, playerVars, jobVars, playVars, mixVars, engineVars>>]_vars

\* The ring buffer of a track: the streaming thread writing, the callback
\* reading and Track::Seek resetting.
SpecRingSeek == InitRingSPSC /\ [][NextRingSeek /\ UNCHANGED <<playerVars, jobVars, playVars, mixVars, engineVars>>]_vars

\* The extraction queue: the control thread submitting, cancelling and
\* releasing, and the worker thread running the jobs.
InitJobQueue == InitJobs /\ ParkedPlayer /\ ParkedRing /\ ParkedPlayback /\ ParkedMix /\ ParkedEngine

SpecJobs == InitJobQueue /\ [][NextJobs /\ UNCHANGED <<playerVars, ringVars, playVars, mixVars, engineVars>>]_vars

\* The same, the worker thread being scheduled whenever it can take a step.
NextJobQueue == NextJobs /\ UNCHANGED <<playerVars, ringVars, playVars, mixVars, engineVars>>

WorkerRuns == (\E w \in Workers : WorkerStep(w)) /\ UNCHANGED <<playerVars, ringVars, playVars, mixVars, engineVars>>

SpecJobsFair == InitJobQueue /\ [][NextJobQueue]_vars /\ WF_vars(WorkerRuns)

\* One extraction under way with any track states: the worker has dequeued
\* job 1, the pipeline function has opened the output file and stands at
\* the head of its render loop.
InitExtract ==
    /\ ParkedPlayer
    /\ ParkedRing
    /\ ParkedPlayback
    /\ ParkedMix
    /\ ParkedEngine
    /\ initialized_ = TRUE
    /\ extraction_worker_running_ = TRUE
    /\ extraction_shutdown_ = FALSE
    /\ extraction_queue_ = <<>>
    /\ extraction_cancel_flags_ = {1}
    /\ cancel_flag = [j \in JobIds |-> FALSE]
    /\ next_extraction_job_id_ = 2
    /\ current_extraction_job_id_ = 1
    /\ files = [p \in Paths |-> 1]
    /\ cpc = "idle"
    /\ result = [w \in Workers |-> NoResult]
    /\ submitted = <<1>>
    /\ lastSubmit = [ret |-> 1, enqueued |-> 1]
    /\ started = <<1>>
    /\ completions = [j \in JobIds |-> <<>>]
    /\ delivered = [w \in Workers |-> <<>>]
    /\ cancel_requested = [j \in JobIds |-> FALSE]
    /\ \E p \in Paths :
         \/ /\ task = [w \in Workers |->
                         IF w = "w1"
                           THEN [job_id |-> 1, cancelled_queued |-> FALSE, is_mix |-> FALSE,
                                 track_id |-> "t1", output_path |-> p]
                           ELSE NoTask]
            /\ jpc = [w \in Workers |-> IF w = "w1" THEN "x_loop" ELSE "none"]
            /\ \E c \in TrackConfigs :
                 ext = [w \in Workers |->
                          IF w = "w1"
                            THEN [NoExt EXCEPT !.tr = <<OfflineTrackState(c)>>,
                                               !.total_frames = c.total_frames,
                                               !.encoder = "open"]
                            ELSE NoExt]
         \/ /\ task = [w \in Workers |->
                         IF w = "w1"
                           THEN [job_id |-> 1, cancelled_queued |-> FALSE, is_mix |-> TRUE,
                                 track_id |-> "", output_path |-> p]
                           ELSE NoTask]
            /\ jpc = [w \in Workers |-> IF w = "w1" THEN "m_loop" ELSE "none"]
            /\ \E c1 \in TrackConfigs, c2 \in TrackConfigs :
                 ext = [w \in Workers |->
                          IF w = "w1"
                            THEN [NoExt EXCEPT !.tr = <<OfflineTrackState(c1),
                                                        OfflineTrackState(c2)>>,
                                               !.has_solo = c1.solo \/ c2.solo,
                                               !.total_frames =
                                                   Max(c1.total_frames, c2.total_frames),
                                               !.encoder = "open"]
                            ELSE NoExt]

NextExtract ==
    /\ \/ CancelExtraction(1)
       \/ LoopCheck("w1")
       \/ TrackLoop("w1")
       \/ MixLoop("w1")
       \/ ReportProgress("w1")
       \/ ProgressWrapper("w1")
       \/ ExtractClose("w1")
       \/ ExtractCleanup("w1")
       \/ WorkerPostCheck("w1")
       \/ WorkerComplete("w1")
       \/ WorkerErase("w1")
    /\ UNCHANGED <<playerVars, ringVars, playVars, mixVars, engineVars>>

SpecExtract == InitExtract /\ [][NextExtract]_vars

\* Real-time playback of two loaded tracks.
InitPlay == InitPlayback /\ ParkedPlayer /\ ParkedRing /\ ParkedJobs /\ ParkedMix /\ ParkedEngine

SpecMixing == InitPlay /\ [][NextMixing /\ UNCHANGED <<ringVars, jobVars, mixVars, engineVars>>]_vars

SpecSeeking == InitPlay /\ [][NextSeeking /\ UNCHANGED <<ringVars, jobVars, mixVars, engineVars>>]_vars

SpecSeekErrors == InitPlay /\ [][NextSeekErrors /\ UNCHANGED <<ringVars, jobVars, mixVars, engineVars>>]_vars

\* The steps of the streaming thread of track t.
FillThread(t) ==
    (StreamRead(t) \/ StreamWrite(t) \/ StreamWait(t) \/ StreamWake(t))
    /\ UNCHANGED <<playerVars, ringVars, jobVars, mixVars, engineVars>>

\* A track being filled, read and sought, no notification of the
\* condition variable ever reaching the streaming thread.
NextFill ==
    \/ \E t \in Tracks : FillThread(t)
    \/ (\E t \in Tracks, n \in 1..MaxCallbackFrames : TrackRead(t, n))
         /\ UNCHANGED <<playerVars, ringVars, jobVars, mixVars, engineVars>>
    \/ (\E t \in Tracks, f \in 0..(TrackFrames - 1) : TrackSeek(t, f))
         /\ UNCHANGED <<playerVars, ringVars, jobVars, mixVars, engineVars>>

\* The same with each streaming thread scheduled whenever it can step.
SpecFill ==
    InitPlay /\ [][NextFill]_vars
             /\ WF_vars(FillThread("ta")) /\ WF_vars(FillThread("tb"))

SpecTrack == InitPlay /\ [][NextTrack /\ UNCHANGED <<ringVars, jobVars, mixVars, engineVars>>]_vars

\* The live mix of two tracks from timeline position 0.
InitLiveMix == InitMix /\ ParkedPlayer /\ ParkedRing /\ ParkedJobs /\ ParkedPlayback /\ ParkedEngine

SpecLiveMix ==
    InitLiveMix /\ [][NextLiveMix /\ UNCHANGED <<playerVars, ringVars, jobVars, playVars, engineVars>>]_vars

\* The live path and the offline path over the same tracks.
SpecLiveOffline ==
    InitLiveMix /\ [][NextLiveOffline /\ UNCHANGED <<playerVars, ringVars, jobVars, playVars, engineVars>>]_vars

\* The control thread loading and unloading tracks.
InitTimeline == InitEngine /\ ParkedStretch /\ ParkedPlayer /\ ParkedRing /\ ParkedJobs /\ ParkedPlayback /\ ParkedMix

SpecTimeline ==
    InitTimeline /\ [][NextTimeline /\ UNCHANGED <<playerVars, ringVars, jobVars, playVars, mixVars,
                                                   stretchVars>>]_vars

\* The control thread calling the setters, one track being loaded.
InitParams ==
    /\ tracks_ = [x \in {"ta"} |-> NewTrack("a.wav", 0)]
    /\ duration_samples_ = 3
    /\ pitch_ = 0
    /\ speed_ = Unit
    /\ engineCall = NoEngineCall
    /\ ParkedStretch
    /\ ParkedPlayer /\ ParkedRing /\ ParkedJobs /\ ParkedPlayback /\ ParkedMix

\* A track read again and again with a constant stretch factor and pitch.
InitStretchDemand ==
    /\ \E p \in {0, 5 * Unit}, s \in {Unit \div 2, 7, Unit, 15, 2 * Unit} :
          time_stretcher_ = [NewTimeStretch EXCEPT !.pitch_semitones_ = p,
                                                   !.stretch_factor_ = s]
    /\ stretch_input_fraction_ = 0
    /\ demand = NoDemand
    /\ InitEngine
    /\ ParkedPlayer /\ ParkedRing /\ ParkedJobs /\ ParkedPlayback /\ ParkedMix

SpecStretchDemand ==
    InitStretchDemand /\ [][NextStretchDemand /\ UNCHANGED <<playerVars, ringVars, jobVars,
                                                             playVars, mixVars>>]_vars

\* Any sequence of calls on one TimeStretch.
InitTimeStretch ==
    /\ ParkedStretch /\ InitEngine
    /\ ParkedPlayer /\ ParkedRing /\ ParkedJobs /\ ParkedPlayback /\ ParkedMix

SpecTimeStretch ==
    InitTimeStretch /\ [][NextTimeStretch /\ UNCHANGED <<playerVars, ringVars, jobVars,
                                                         playVars, mixVars>>]_vars

SpecParams ==
    InitParams /\ [][NextParams /\ UNCHANGED <<playerVars, ringVars, jobVars, playVars,
                                               mix_tracks, live_pos, live_read, live_out,
                                               off_read, off_out, off_done,
                                               stretchVars>>]_vars

(***************************************************************************)
(* Claims about real-time playback                                         *)
(***************************************************************************)
\* C15: when AudioEngine::Stop() returns on an initialized engine, from any
\* transport state and clock position and with a callback possibly in
\* flight when Stop was called, the transport is Stopped, the clock
\* position is 0 and every loaded track is positioned at its frame 0.
C15_StopResetsEverything ==
    (epc = "returned" /\ call.op = "stop") =>
        /\ state_ = "Stopped"
        /\ position_ = 0
        /\ \A t \in Tracks : PositionedAt(t, 0)

\* C16: a data callback with n frames, when the transport is Playing or
\* Recording, calls the mixer once with the clock position it read before
\* advancing and then advances the clock by exactly n; when the transport
\* is Stopped or Paused it writes only zeros and leaves the clock position
\* and every track's buffer unchanged.
C16_CallbackEffect ==
    [][/\ (apc = "idle" /\ apc' # "idle") =>
              /\ IsPlaying
              /\ cb'.timeline_start = position_
              /\ position_' = position_
       /\ (apc = "advance" /\ apc' = "idle") =>
              /\ cb.mix_calls = 1
              /\ cb.out = "mix"
              /\ position_' = position_ + cb.n
       /\ (apc = "idle" /\ apc' = "idle" /\ cb' # cb) =>
              /\ ~IsPlaying
              /\ cb'.out = "zeros"
              /\ cb'.mix_calls = 0
              /\ position_' = position_
              /\ buffer_frames' = buffer_frames]_vars

\* A callback has written zeros during a pause that began after the clock
\* had advanced, with frames waiting in a track's buffer.
C16_Witness ==
    /\ state_ = "Paused"
    /\ apc = "idle"
    /\ cb.out = "zeros"
    /\ position_ > 0
    /\ \E t \in Tracks : buffer_frames[t] # <<>>

\* The track the mixing loop of the callback in flight handled last.
JustMixed(t) ==
    \/ apc = "mix" /\ cb.idx > 1 /\ t = TrackOrder[cb.idx - 1]
    \/ apc = "advance" /\ t = TrackOrder[Len(TrackOrder)]

C18_SampleAccurateSync ==
    (supplied.track # "" /\ ~underrun) =>
        \A i \in 1..Len(supplied.frames) :
            supplied.frames[i] = supplied.first + i - 1

\* C19: the callback thread never waits for tracks_mutex_ while the control
\* thread holds it.
C19_CallbackNeverWaits ==
    ~(apc \in {"solo", "mix"} /\ tracks_mutex_ = "control")

\* C22: ReadSamples on a muted track writes exactly `frames` zeros and
\* returns `frames`; neither SetMuted nor a muted read moves the track's
\* position or resets its buffer, and a read of an unmuted track takes the
\* frames the track was positioned at.
C22_MutedReadIsSilentAndKeepsPosition ==
    [][\A t \in Tracks :
          /\ (supplied' # supplied /\ supplied'.track = t /\ muted_[t]) =>
                 /\ supplied'.out = Zeros(supplied'.needed)
                 /\ supplied'.ret = supplied'.needed
                 /\ Upcoming(t)' = Upcoming(t)
          /\ muted_'[t] # muted_[t] => Upcoming(t)' = Upcoming(t)
          /\ (supplied' # supplied /\ supplied'.track = t /\ ~muted_[t]) =>
                 /\ supplied'.frames =
                        SubSeq(buffer_frames[t], 1, Len(supplied'.frames))
                 /\ buffer_frames[t] = supplied'.frames \o buffer_frames'[t]]_vars

\* A muted track with frames waiting in its buffer has been read: two
\* zeros written, the frames still waiting.
C22_Witness ==
    /\ supplied.track = "ta"
    /\ muted_["ta"]
    /\ supplied.out = <<Silence, Silence>>
    /\ supplied.ret = 2
    /\ buffer_frames["ta"] = <<0, 1>>

\* C23: every sample that Mix leaves in the output lies in [-1, 1], for
\* any track volumes in [0, 2], any pans and any master volume in [0, 2].
C23_MixedOutputInUnitRange ==
    \A k \in 1..Len(live_out) :
        \A c \in 1..2 : live_out[k][c] >= 0 - Unit /\ live_out[k][c] <= Unit

\* Two tracks at volume 2 panned left under master volume 2 have been
\* mixed: the left sample of the first frame, 7.2 before the clamp, is 1.
C23_Witness ==
    /\ Len(live_out) >= 1
    /\ master_volume_ = 2 * Unit
    /\ \A i \in MixIds :
          /\ mix_tracks[i].volume = 2 * Unit
          /\ mix_tracks[i].pan = 0 - Unit
          /\ mix_tracks[i].start = 0
          /\ Eligible_Mix(i)
    /\ live_out[1] = <<Unit, 0>>

\* C24: in Mix with timeline start p and n frames, an eligible track with
\* start offset s is not read when p + n <= s; when p < s < p + n it is
\* read for exactly p + n - s frames, which go to output frame s - p and
\* after; when p >= s it is read for n frames from output frame 0.
C24_StartOffsetPlacesTheTrack ==
    \A t \in Tracks :
        (JustMixed(t) /\ ~cb.changed /\ PassesGate(t, cb.has_solo)) =>
            LET p == cb.timeline_start
                n == cb.n
                s == start_time_samples_[t]
            IN  /\ p + n <= s => supplied.track # t
                /\ (p < s /\ s < p + n) =>
                       /\ supplied.track = t
                       /\ supplied.needed = p + n - s
                       /\ supplied.at = s - p
                /\ p >= s =>
                       /\ supplied.track = t
                       /\ supplied.needed = n
                       /\ supplied.at = 0

\* The second track, starting at frame 1, has been mixed by a callback of
\* two frames at position 0: one frame read, placed at output frame 1.
C24_Witness ==
    /\ JustMixed("tb")
    /\ cb.timeline_start = 0
    /\ cb.n = 2
    /\ start_time_samples_["tb"] = 1
    /\ supplied.track = "tb"
    /\ supplied.needed = 1
    /\ supplied.at = 1

(***************************************************************************)
(* Claims about the engine's tracks and parameters                         *)
(***************************************************************************)
\* What the setters of a loaded track and of the mixer store is within the
\* parameter's range.
TrackParamsClamped ==
    /\ \A id \in DOMAIN tracks_ :
          /\ 0 <= GetVolume(id) /\ GetVolume(id) <= 2 * Unit
          /\ 0 - Unit <= GetPan(id) /\ GetPan(id) <= Unit
          /\ 0 - 12 * Unit <= GetPitchSemitones(id) /\ GetPitchSemitones(id) <= 12 * Unit
          /\ Unit \div 2 <= GetStretchFactor(id) /\ GetStretchFactor(id) <= 2 * Unit
    /\ 0 <= GetMasterVolume /\ GetMasterVolume <= 2 * Unit

\* C25: after any sequence of setter calls with arbitrary arguments every
\* getter reports a value within its range: track volume in [0, 2], pan
\* in [-1, 1], track pitch in [-12, 12], track stretch in [0.5, 2], master
\* volume in [0, 2], and the engine's GetPitch in [-12, 12] and GetSpeed
\* in [0.5, 2].
C25_GettersWithinRange ==
    /\ TrackParamsClamped
    /\ 0 - 12 * Unit <= GetPitch /\ GetPitch <= 12 * Unit
    /\ Unit \div 2 <= GetSpeed /\ GetSpeed <= 2 * Unit

\* C30: after any sequence of LoadTrack, UnloadTrack and UnloadAllTracks
\* the timeline duration is the greatest start offset + duration of the
\* loaded tracks, and 0 when no track is loaded.
C30_DurationIsLatestTrackEnd ==
    IF DOMAIN tracks_ = {}
      THEN duration_samples_ = 0
      ELSE /\ \E id \in DOMAIN tracks_ :
                duration_samples_ = tracks_[id].start_time_samples_ + tracks_[id].duration
           /\ \A id \in DOMAIN tracks_ :
                tracks_[id].start_time_samples_ + tracks_[id].duration <= duration_samples_

\* A track was unloaded and the one that remains starts 4 frames into the
\* timeline and lasts 3.
C30_Witness ==
    /\ engineCall.op = "UnloadTrack" /\ engineCall.ret
    /\ Cardinality(DOMAIN tracks_) = 1
    /\ \A id \in DOMAIN tracks_ : tracks_[id].start_time_samples_ = 4
    /\ duration_samples_ = 7

(***************************************************************************)
(* Claims about what an extraction writes                                  *)
(***************************************************************************)
\* The pipeline function has returned success for the job of worker w and
\* the worker has found no cancel request afterwards.
Succeeded(w) ==
    /\ result[w].success
    /\ \/ jpc[w] = "post_check" /\ ~cancel_flag[Job(w)]
       \/ jpc[w] \in {"complete", "erase"}

\* written is total_frames / stretch within one frame, the stretch factor
\* being counted in halves.
WithinOneFrame(written, st) ==
    LET d == written * GetStretchFactor2(st) - 2 * st.total_frames
    IN  0 - GetStretchFactor2(st) <= d /\ d <= GetStretchFactor2(st)

\* C27: a successful mixed extraction of tracks of known length has written
\* as many frames as the longest eligible track gives (the greatest
\* total_frames / stretch over the eligible tracks, within one frame),
\* wherever in a chunk the shorter tracks end.
C27_MixWritesLongestTrack ==
    \A w \in Workers :
        LET tr == ext[w].tr
            elig == {i \in DOMAIN tr : Eligible(tr[i], ext[w].has_solo)}
        IN  (/\ task[w].is_mix
             /\ Succeeded(w)
             /\ elig # {}
             /\ \A i \in DOMAIN tr : tr[i].total_frames > 0)
            => \E i \in elig :
                  /\ \A j \in elig :
                        tr[j].total_frames * GetStretchFactor2(tr[i])
                            <= tr[i].total_frames * GetStretchFactor2(tr[j])
                  /\ WithinOneFrame(ext[w].written, tr[i])

\* C28: a successful single-track extraction of an unmuted track of N
\* frames has read exactly the N source frames, counts N input frames as
\* processed, and has written N / stretch frames within one frame, for
\* the stretch factors 0.5, 1 and 2.
C28_StretchedLengthAndInputProgress ==
    \A w \in Workers :
        (/\ ~task[w].is_mix
         /\ Succeeded(w)
         /\ ext[w].total_frames > 0
         /\ ~ext[w].tr[1].muted)
        => /\ ext[w].tr[1].decoder_pos = ext[w].tr[1].total_frames
           /\ ext[w].tr[1].input_frames_processed = ext[w].tr[1].total_frames
           /\ ext[w].progress = ext[w].tr[1].total_frames
           /\ WithinOneFrame(ext[w].written, ext[w].tr[1])

\* A track of 2 frames stretched by 2.0 has been extracted: 1 frame written.
C28_Witness ==
    \E w \in Workers :
        /\ ~task[w].is_mix
        /\ Succeeded(w)
        /\ ext[w].total_frames = 2
        /\ ~ext[w].tr[1].muted
        /\ ext[w].tr[1].stretcher
        /\ ext[w].tr[1].stretch2 = 4
        /\ ext[w].tr[1].decoder_pos = 2
        /\ ext[w].written = 1

\* C29: once the cancel flag of a running extraction is set the loop writes
\* at most one more chunk, of at most kRenderBufferFrames frames; once a
\* test of the flag has found it set no progress value is passed on and
\* the loop renders nothing more.
C29_CancelAtChunkGranularity ==
    \A w \in Workers :
        /\ ext[w].late_writes <= 1
        /\ ext[w].frames_rendered <= kRenderBufferFrames
        /\ ext[w].late_reports = 0
        /\ ext[w].seen_cancel => jpc[w] \notin {"x_body", "m_body", "x_progress", "x_wrapper"}

\* The flag was set between the loop's test and the write; the next test
\* has ended the loop.
C29_Witness ==
    \E w \in Workers :
        /\ ext[w].late_writes = 1
        /\ ext[w].seen_cancel
        /\ jpc[w] = "x_close"
        /\ result[w].error_message = "Extraction cancelled"

(***************************************************************************)
(* Claims about the live and the offline path                              *)
(***************************************************************************)
\* C26: for the same tracks and parameters the frames that mixed-track
\* extraction writes are the frames the live path plays from timeline
\* position 0: frame by frame, as far as both streams go.
C26_OfflineStreamIsLiveStream ==
    \A k \in 1..Min(Len(off_out), Len(live_out)) : off_out[k] = live_out[k]

(***************************************************************************)
(* Claims about seeking                                                    *)
(***************************************************************************)
\* C31: when AudioEngine::Seek returns, the clock has been set, Track::Seek
\* has been called on every track whichever of them failed, and kSeekFailed
\* has been reported once if any track failed and not at all otherwise.
C31_SeekFailureReportedOnce ==
    (epc = "returned" /\ call.op = "seek") =>
        /\ position_ = call.frame
        /\ call.sought = Len(TrackOrder)
        /\ call.failed > 0 => call.errors = <<"kSeekFailed">>
        /\ call.failed = 0 => call.errors = <<>>

\* Both tracks failed to seek, the first one included, and the call has
\* returned with one report.
C31_Witness ==
    /\ epc = "returned" /\ call.op = "seek"
    /\ call.failed = 2
    /\ call.sought = 2
    /\ call.errors = <<"kSeekFailed">>
    /\ position_ = 2

\* C32: once a seek has returned with every Track::Seek successful, what a
\* track's ring buffer holds, and what its streaming thread is about to
\* write, are the source frames from the sought frame on, in order: no
\* chunk decoded before the seek is in the buffer or on its way there.
C32_BufferRefilledFromSeekTarget ==
    (epc = "returned" /\ call.op = "seek" /\ call.seek_ok) =>
        \A t \in Tracks :
            LET queued == buffer_frames[t] \o temp_buffer[t]
            IN  \A k \in 1..Len(queued) : queued[k] = SeekFrame(t) + k - 1

\* A Write or a Read has loaded an index and not yet stored its own.
WriteInFlight == wpc \notin {"idle", "w_avail_w"}

ReadInFlight == rpc \notin {"idle", "r_avail_w"}

\* C33: whenever Track::Seek resets the ring buffer, neither a Write of the
\* streaming thread nor a Read of the callback is between its index load
\* and its index store.
C33_ResetOnlyWhileQuiesced ==
    [][(lastCall'.op = "SeekReset" /\ lastCall' # lastCall) =>
           (~WriteInFlight /\ ~ReadInFlight)]_vars

\* C34: from a callback's clock_->GetPosition() to its clock_->Advance no
\* other thread changes the clock: while a callback is under way the only
\* step that changes position_ is that callback's Advance.
C34_ClockUntouchedDuringCallback ==
    [][(apc # "idle" /\ ~(apc = "advance" /\ apc' = "idle")) =>
           position_' = position_]_vars

(***************************************************************************)
(* Claims about the streaming thread                                       *)
(***************************************************************************)
\* The buffer of track t has room for a chunk and its decoder has data.
CanFill(t) == Len(buffer_frames[t]) + 1 <= BufferFrames /\ decoder_pos[t] < TrackFrames

C36_StretchDemandDriftBelowOneFrame ==
    IsActive(time_stretcher_) =>
        LET drift == Unit * demand.input - time_stretcher_.stretch_factor_ * demand.output
        IN /\ 0 - Unit < drift /\ drift < Unit
           /\ 0 <= stretch_input_fraction_ /\ stretch_input_fraction_ < Unit

\* C40: the cached last_pitch_ is the pitch last set on the primitive, and a
\* block the primitive has just processed was processed at the pitch
\* parameter.
C40_CachedPitchIsPrimitivePitch ==
    /\ time_stretcher_.last_pitch_ = time_stretcher_.transpose
    /\ time_stretcher_.ran =>
          time_stretcher_.transpose = time_stretcher_.pitch_semitones_

(***************************************************************************)
(* Claims about the release of the recovery guard                          *)
(***************************************************************************)
\* C37: every way out of RestartStream and of the automatic recovery leaves
\* the guard released, and a request is turned away as already in progress
\* only while another thread is inside its recovery.
C37_GuardReleasedOnEveryExit ==
    [][\A t \in PlayerThreads :
         /\ (InRecovery(t) /\ ~InRecovery(t)') => ~stream_recovering_'
         /\ (rejected'[t] /\ ~rejected[t]) => \E u \in PlayerThreads \ {t} : InRecovery(u)]_vars

\* A RestartStream call holds the guard after an earlier attempt has failed
\* and another has been turned away.
C37_Witness ==
    /\ last_recovery = "failed"
    /\ \E t \in RestartThreads : ppc[t] = "r_was_playing"
    /\ \E u \in PlayerThreads : rejected[u] /\ ppc[u] = "done"

(***************************************************************************)
(* Claims about a job cancelled in the queue                               *)
(***************************************************************************)
\* The result given to the completion callback of a job that was not run.
CancelledResult == [success |-> FALSE, error_message |-> "Extraction cancelled"]

\* C38: a job whose flag was set while it was queued is not rendered: from
\* its dequeue on nothing is opened, it creates no output file and gets no
\* progress callback, and its completion callback is given the failure
\* "Extraction cancelled".
C38_CancelledInQueueIsNotRendered ==
    \A w \in Workers :
        task[w].cancelled_queued =>
            /\ jpc[w] \in {"check_cancel", "complete", "erase"}
            /\ ext[w] = NoExt
            /\ delivered[w] = <<>>
            /\ files[task[w].output_path] # Job(w)
            /\ jpc[w] = "complete" => result[w] = CancelledResult
            /\ jpc[w] = "erase" =>
                  completions[Job(w)] =
                      <<[success |-> FALSE, error_message |-> "Extraction cancelled",
                         file |-> FALSE]>>

\* The completion callback of a job cancelled in the queue has returned.
C38_Witness ==
    \E w \in Workers :
        /\ task[w].cancelled_queued
        /\ jpc[w] = "erase"
        /\ Len(completions[Job(w)]) = 1

(***************************************************************************)
(* Claims about the end of an extraction                                   *)
(***************************************************************************)
\* The worker is inside the render loop of ExtractTrack or ExtractMixedTracks.
InRenderLoop(w) ==
    jpc[w] \in {"x_loop", "x_body", "m_loop", "m_body", "x_progress", "x_wrapper"}

\* C39: every render loop a worker enters is left again, whatever the track:
\* length known or not, muted or not, soloed or not, any stretch factor,
\* and without a cancel.
C39_RenderLoopTerminates ==
    \A w \in Workers : InRenderLoop(w) ~> ~InRenderLoop(w)

====
